---- MODULE Spec2Model ----
(***************************************************************************)
(* State-machine model of the FOLIO user import (folio-user-import).       *)
(*                                                                         *)
(* Two revisions of the importer are modelled side by side, selected by    *)
(* the variable `variant`:                                                 *)
(*   "index"  - src/src/index.js, the revision starting at line 531        *)
(*              (login ... mapUserData, with credential creation and the   *)
(*              rollback functions deleteUser / removeUserCredentials);    *)
(*   "part0"  - src/unnamed/part_000 (keep-alive agent, status switches,   *)
(*              no credential step).                                       *)
(*                                                                         *)
(* One action is one callback of the program (a response 'end' handler, a  *)
(* request 'error' handler, the readFile callback), together with every    *)
(* function it calls synchronously.  The remote service is the             *)
(* environment: it answers each request with a status code or a transport  *)
(* error, chosen nondeterministically.                                     *)
(***************************************************************************)
EXTENDS Integers, Sequences, FiniteSets, TLC

(* ----------------------------- bounds --------------------------------- *)
\* Largest number of records in the user file.
MaxUsers == 2
\* Largest configured page size (FOLIO_PAGESIZE).
MaxPageSize == 2
\* Largest number of records in a run whose start-up was irregular (a login
\* answered with a failure status, a reference table that stayed empty).
MaxDegradedUsers == 1
\* Longest list and largest page size of the partitioning specification.
MaxPartLen == 4
MaxPartPage == 3
\* Longest address list of a record of the translation specification.
MaxAddresses == 2

(* --------------------- the environment's alphabet --------------------- *)
\* externalSystemId of the i-th record of the file (unique within the file).
ExtName == <<"A", "B", "C", "D", "E", "F">>
\* An externalSystemId that only the remote service knows.
ForeignExt == "Z"
\* An id carried by a record of the file itself.
OwnId == "own"
\* A faulty UuidName: the generator hands out one identifier again and again.
UuidName_Repeated == <<"u1", "u1", "u1", "u1", "u1", "u1">>
\* Identifiers handed out by uuidv1(), in order of generation.
UuidName == <<"u1", "u2", "u3", "u4", "u5", "u6">>
\* The string JavaScript produces for '/users/' + undefined.
Undefined == "undefined"
\* The id the remote service holds for a record with externalSystemId e.
RemoteId(e) == "r" \o e
RemoteRecord(e) == [externalSystemId |-> e, id |-> RemoteId(e)]

\* Status codes the remote service answers each kind of request with.  index.js
\* only tells 2xx from the rest; part_000 switches on single codes, and 404
\* stands for the codes its switches leave to the default branch.
LoginStatuses == {201, 401}
GetStatuses == {200, 500}
SearchStatuses == {200, 500}
PutStatuses == {204, 401, 500}
PostStatuses == {201, 500}
DeleteStatuses == {204, 404}
SwitchPutStatuses == {204, 401, 403, 404, 500}
SwitchPostStatuses == {201, 404, 500}

Variants == {"index", "part0"}

VARIABLES
  variant,       \* which revision runs
  proc,          \* "running" | "exited" (process.exit) | "crashed" (uncaught exception)
  phase,         \* position of the start-up callback chain
  authToken,     \* var authToken
  loginResp,     \* what the login call returned (history)
  addressTypes,  \* var addressTypes: name -> id
  patronGroups,  \* var patronGroups: name -> id
  addressAns,    \* how the address-type request ended (history, see TableAnswer)
  groupAns,      \* how the patron-group request ended (history)
  fileKind,      \* what reading the user file gives (see FileKinds)
  input,         \* the records of the file as read (never changes)
  pageSize,      \* folioPageSize
  users,         \* the record objects (mutated in place by importUsers/createUser)
  userData,      \* processUsers' userData: the batches, as sequences of record indices
  bst,           \* per batch: "pending" | "search" | "import" | "done" | "error"
  searchRes,     \* per batch: the response to its existence query (history)
  completed,     \* per batch: async.each's count of records completed without error
  final,         \* final callback of processUsers: "none" | "finished" | "failed"
  sys,           \* run-level remote calls issued so far, in order
  pc,            \* per record: the call in flight, or "idle" | "done" | "dead"
  calls,         \* per record: the remote calls issued for it, with their answers
  cbs,           \* per record: the invocations of its completion callback
  logged,        \* per record: a failure was logged for it
  remote,        \* per record: what the remote service holds of it
  delCb,         \* per record: the callback argument deleteUser received
  nextUuid,      \* number of identifiers uuidv1() has generated
  doomedU,       \* part0: records whose in-flight socket keepAliveAgent.destroy() closed
  doomedS,       \* part0: batches whose in-flight query socket was closed
  partIn,        \* partitioning specification: the list
  partPage,      \* partitioning specification: the page size
  partOut,       \* partitioning specification: the batches
  mapIn,         \* translation specification: the record handed to mapUserData
  mapOut,        \* translation specification: the record object after the last call
  mapFirst,      \* translation specification: what the first call returned
  mapArg,        \* translation specification: the object the caller passed, as it is now
  cfgKind,       \* configuration specification: what require(configUrl) gives
  cfgFile,       \* configuration specification: the settings of the config file
  cfgEnv,        \* configuration specification: the environment variables
  settings       \* configuration specification: folioFilename, folioPageSize

vars == <<variant, proc, phase, authToken, loginResp, addressTypes, patronGroups,
          addressAns, groupAns, fileKind, input, pageSize, users, userData, bst,
          searchRes, completed, final, sys, pc, calls, cbs, logged, remote, delCb, nextUuid,
          doomedU, doomedS, partIn, partPage, partOut, mapIn, mapOut, mapFirst, mapArg,
          cfgKind, cfgFile, cfgEnv, settings>>

startVars == <<authToken, loginResp, addressTypes, patronGroups, addressAns, groupAns>>
sessionVars == <<authToken, loginResp, addressAns, groupAns>>
inputVars == <<variant, fileKind, input, pageSize>>
batchVars == <<userData, bst, searchRes, completed, final>>
userVars == <<users, pc, calls, cbs, logged, remote, delCb, nextUuid>>
agentVars == <<doomedU, doomedS>>
partVars == <<partIn, partPage, partOut>>
mapVars == <<mapIn, mapOut, mapFirst, mapArg>>
confVars == <<cfgKind, cfgFile, cfgEnv, settings>>

(* ----------------------------- helpers -------------------------------- *)
\* response.statusCode > 299 || response.statusCode < 200
NonSuccess(status) == status > 299 \/ status < 200

N == Len(users)
Users == 1..N
Batches == 1..Len(userData)

RECURSIVE SeqToSet(_)
SeqToSet(s) == IF s = <<>> THEN {} ELSE {Head(s)} \cup SeqToSet(Tail(s))

\* A faulty Splice: the page is one element too long.
Splice_OneMore(list, count) ==
  LET k == IF count + 1 > Len(list) THEN Len(list) ELSE count + 1
  IN  <<SubSeq(list, 1, k), SubSeq(list, k + 1, Len(list))>>

\* Array.prototype.splice(0, count) on a list: <<removed elements, what is left>>.
Splice(list, count) ==
  LET k == IF count < 0 THEN 0 ELSE IF count > Len(list) THEN Len(list) ELSE count
  IN  <<SubSeq(list, 1, k), SubSeq(list, k + 1, Len(list))>>

\* while (data.length) { userData.push(data.splice(0, folioPageSize)); }
\* (only evaluated for a page size that makes the loop terminate)
RECURSIVE Partition(_, _)
Partition(data, size) ==
  IF Len(data) = 0 THEN <<>>
  ELSE LET cut == Splice(data, size)
       IN  <<cut[1]>> \o Partition(cut[2], size)

\* The loop of processUsers never ends: splice removes nothing.
LoopsForever(data, size) == Len(data) > 0 /\ size <= 0

\* The tables the remote service would deliver.
RemoteAddressTypes == [n \in {"Home"} |-> "at-home"]
RemotePatronGroups == [n \in {"staff"} |-> "pg-staff"]

\* obj[k] = v for every entry of list, on top of what obj already holds.
Merge(obj, list) ==
  [n \in (DOMAIN obj) \cup (DOMAIN list) |-> IF n \in DOMAIN list THEN list[n] ELSE obj[n]]

\* What fs.readFile and JSON.parse can make of the user file:
\*   "ioerr"   the file cannot be read
\*   "badjson" the content is not JSON
\*   "object"  valid JSON, an object or a number (no length)
\*   "null"    valid JSON, null or a string (data.length or data.splice throws)
\*   "list"    a JSON array of records
FileKinds == {"ioerr", "badjson", "object", "null", "list"}


(* ------------------------ requests and callbacks ---------------------- *)
\* A faulty TablesKept: a handler of the batch phase empties the lookup tables
\* (a refresh in mid-run).
TablesKept_Refreshed == addressTypes' = <<>> /\ patronGroups' = <<>>

\* The handlers of the batch phase (searchUsers, importUsers, updateUser,
\* createUser and the rollback) only read addressTypes and patronGroups, in
\* mapUserData; none of them assigns to the tables.
TablesKept == addressTypes' = addressTypes /\ patronGroups' = patronGroups

\* var folioTenant = process.env.FOLIO_TENANT || 'diku', the 'X-Okapi-Tenant' header.
folioTenant == "diku"

\* A faulty createRequest: the 'x-okapi-token' header is left out.
createRequest_NoToken(method, path, target) ==
  [op |-> method \o " " \o path, target |-> target, token |-> "",
   tenant |-> folioTenant, state |-> "pending", status |-> 0]

\* createRequest(method, path, ...): the token and tenant headers are stamped
\* from the globals at the time the request is built.
createRequest(method, path, target) ==
  [op |-> method \o " " \o path, target |-> target, token |-> authToken,
   tenant |-> folioTenant, state |-> "pending", status |-> 0]

\* A run-level request (login, reference tables, existence query of a batch);
\* login builds its own options, with the tenant header and no token header.
SysRequest(op, batch, query, token) ==
  [op |-> op, batch |-> batch, query |-> query, token |-> token, tenant |-> folioTenant]

\* The last call of a record's list, answered with a status / failed in transport.
Answered(cs, status) ==
  [cs EXCEPT ![Len(cs)].state = "answered", ![Len(cs)].status = status]
Errored(cs) == [cs EXCEPT ![Len(cs)].state = "error"]

InFlight == {"PUT /users", "POST /users", "POST /authn/credentials", "POST /perms/users",
             "DELETE /authn/credentials", "DELETE /users"}

\* The batch a record belongs to.
BatchOf(i) == CHOOSE k \in Batches : \E j \in 1..Len(userData[k]) : userData[k][j] = i

\* A faulty searchUsers: the query names the first record of the list only.
searchUsers_FirstOnly(k, batches) ==
  SysRequest("GET /users?query", k, <<users[batches[k][1]].externalSystemId>>, authToken)

\* searchUsers(userList, callback): builds the query over the externalSystemId of
\* every record of the list and issues GET /users?query=...
searchUsers(k, batches) ==
  SysRequest("GET /users?query", k,
             [j \in 1..Len(batches[k]) |-> users[batches[k][j]].externalSystemId],
             authToken)

\* keepAliveAgent.destroy() (part_000): every socket in use is closed; the requests
\* in flight on them end with an 'error' event.  `except` is the record whose
\* handler is running (its response has been received).
DestroyedUsers(except) == {j \in Users : pc[j] \in InFlight /\ j # except}
DestroyedSearches(except) == {b \in Batches : bst[b] = "search" /\ b # except}

\* The state of the batch loop: what a callback can change.
LoopState == [bst |-> bst, completed |-> completed, final |-> final, sys |-> sys,
              doomedU |-> doomedU, doomedS |-> doomedS]

\* async.eachLimit(userData, 1, searchUsers, final) of index.js: the callback of
\* batch k.  An error ends the loop with the final callback; otherwise the next
\* batch is started, or the final callback reports success after the last one.
eachLimitCallback(st, k, err) ==
  IF err
  THEN [st EXCEPT !.bst[k] = "error", !.final = "failed"]
  ELSE IF k < Len(userData)
  THEN [st EXCEPT !.bst[k] = "done", !.bst[k + 1] = "search",
                  !.sys = Append(@, searchUsers(k + 1, userData))]
  ELSE [st EXCEPT !.bst[k] = "done", !.final = "finished"]

\* async.each(userData, searchUsers, final) of part_000: the callback of batch k.
\* The final callback runs once, on the first error or when every batch is done,
\* and destroys the keep-alive agent either way.
eachBatchCallback(st, k, err, caller) ==
  LET others == {b \in Batches : b # k}
      fire == st.final = "none" /\ (err \/ \A b \in others : st.bst[b] = "done")
  IN  [st EXCEPT !.bst[k] = IF err THEN "error" ELSE "done",
                 !.final = IF ~fire THEN @ ELSE IF err THEN "failed" ELSE "finished",
                 !.doomedU = IF fire THEN @ \cup DestroyedUsers(caller) ELSE @,
                 !.doomedS = IF fire THEN @ \cup DestroyedSearches(k) ELSE @]

\* The callback searchUsers received for batch k.
BatchCallback(st, k, err, caller) ==
  IF variant = "index" THEN eachLimitCallback(st, k, err)
  ELSE eachBatchCallback(st, k, err, caller)

\* async.each(userMap, ..., function (err) {...}) of importUsers: the callback
\* userCallback of record i.  The batch callback is called once: with the first
\* error, or without error when every record of the batch has completed.
userCallback(st, i, err) ==
  LET k == BatchOf(i)
  IN  IF st.bst[k] # "import" THEN st
      ELSE IF err THEN BatchCallback(st, k, TRUE, i)
      ELSE IF st.completed[k] + 1 = Len(userData[k])
      THEN BatchCallback([st EXCEPT !.completed[k] = @ + 1], k, FALSE, i)
      ELSE [st EXCEPT !.completed[k] = @ + 1]

\* Installs a loop state.
SetLoop(st) ==
  /\ bst' = st.bst
  /\ completed' = st.completed
  /\ final' = st.final
  /\ sys' = st.sys
  /\ doomedU' = st.doomedU
  /\ doomedS' = st.doomedS


(* --------------------------- mapUserData ------------------------------ *)
\* A field the record does not have (its value is undefined).
Absent == "<absent>"
\* if (value): undefined and the empty string are falsy.
Truthy(value) == value \notin {Absent, ""}

\* table[name] on a plain object: the id stored under the name, else undefined.
Lookup(table, name) == IF name \in DOMAIN table THEN table[name] ELSE Absent

\* var preferredContactTypes = {...}: the built-in table.
preferredContactTypes ==
  [n \in {"mail", "email", "text", "phone", "mobile"} |->
     CASE n = "mail" -> "001" [] n = "email" -> "002" [] n = "text" -> "003"
       [] n = "phone" -> "004" [] n = "mobile" -> "005"]

\* if (value) { if (table[value]) value = table[value]; else delete value; }
Translate(table, value) ==
  IF Truthy(value)
  THEN IF Truthy(Lookup(table, value)) THEN Lookup(table, value) ELSE Absent
  ELSE value

\* A faulty KeepAddress: addresses are kept whether or not their type resolves.
KeepAddress_All(address) == TRUE

\* if (address.addressTypeId) { if (addressTypes[address.addressTypeId]) ...push }
KeepAddress(address) ==
  Truthy(address.addressTypeId) /\ Truthy(Lookup(addressTypes, address.addressTypeId))

\* user.personal.addresses.forEach(...): the addresses pushed, in order, each
\* with its type replaced by what the table holds for it.
RECURSIVE MapAddresses(_)
MapAddresses(list) ==
  IF list = <<>> THEN <<>>
  ELSE LET address == Head(list)
           mapped == [address EXCEPT !.addressTypeId = Lookup(addressTypes, @)]
       IN  (IF KeepAddress(address) THEN <<mapped>> ELSE <<>>) \o MapAddresses(Tail(list))

\* mapUserData(user).  A record is modelled by its patronGroup, whether it has
\* `personal`, and personal's preferredContactTypeId and addresses (hasAddresses
\* tells a missing list from an empty one).
mapUserData(user) ==
  [patronGroup |-> Translate(patronGroups, user.patronGroup),
   hasPersonal |-> user.hasPersonal,
   preferredContactTypeId |->
     IF user.hasPersonal THEN Translate(preferredContactTypes, user.preferredContactTypeId)
     ELSE user.preferredContactTypeId,
   hasAddresses |-> user.hasAddresses,
   addresses |->
     IF user.hasPersonal /\ user.hasAddresses /\ Len(user.addresses) > 0
     THEN MapAddresses(user.addresses) ELSE user.addresses]

\* A record without any of the translated fields.
NoUser == [patronGroup |-> Absent, hasPersonal |-> FALSE,
           preferredContactTypeId |-> Absent, hasAddresses |-> FALSE, addresses |-> <<>>]


(* ----------------------------- initConfig ----------------------------- *)
\* a || b
Or(a, b) == IF Truthy(a) THEN a ELSE b

\* The settings followed here, two of the ten that are all resolved alike.
NoSettings == [FOLIO_FILENAME |-> Absent, FOLIO_PAGESIZE |-> Absent]
\* The built-in fallback values.
Defaults == [FOLIO_FILENAME |-> "users.json", FOLIO_PAGESIZE |-> "10"]

\* var folioFilename = process.env.FOLIO_FILENAME || 'users.json'; ... at load time.
FromEnvironment(env) == [k \in DOMAIN Defaults |-> Or(env[k], Defaults[k])]

\* folioFilename = config.FOLIO_FILENAME || folioFilename; ... in initConfig.
FromConfig(config, current) == [k \in DOMAIN current |-> Or(config[k], current[k])]

\* A faulty initConfigThrows: the failure to load the file is only noted.
initConfigThrows_Never(kind) == FALSE

\* initConfig of index.js when require(configUrl) throws: the catch block calls
\* logger.warn, but `logger` is assigned only after the block; the TypeError
\* leaves initConfig and startImport, and login() is never called.
initConfigThrows(kind) == kind = "unloadable"

\* initConfig of part_000 when require(configUrl) throws: the exception is kept
\* in configError, and after the logger is set up `e.message` is read outside
\* the catch block, where `e` is not defined; the ReferenceError leaves
\* initConfig, which startImport calls outside its try block.
p0_initConfigThrows(kind) == kind = "unloadable"

(* ------------------------------- Init --------------------------------- *)
\* The files of n records: externalSystemIds are distinct, and the first record
\* may carry an id of its own (one such record exercises `if (user.id)`).
InputRecords(n) ==
  {r \in [1..n -> [externalSystemId : SeqToSet(ExtName), id : {"", OwnId},
                   username : {"n" \o e : e \in SeqToSet(ExtName)}]] :
      \A i \in 1..n : /\ r[i].externalSystemId = ExtName[i]
                       /\ r[i].username = "n" \o ExtName[i]
                       /\ (i > 1 => r[i].id = "")}

Init ==
  /\ variant \in Variants
  /\ proc = "running"
  /\ phase = "init"
  /\ authToken = ""
  /\ loginResp = [state |-> "none", status |-> 0, token |-> FALSE]
  /\ addressTypes = <<>>
  /\ patronGroups = <<>>
  /\ addressAns = "none"
  /\ groupAns = "none"
  /\ fileKind \in FileKinds
  /\ \E n \in 0..MaxUsers : input \in InputRecords(n)
  /\ (fileKind # "list" => input = <<>>)
  /\ pageSize \in 0..MaxPageSize
  /\ users = input
  /\ userData = <<>>
  /\ bst = <<>>
  /\ searchRes = <<>>
  /\ completed = <<>>
  /\ final = "none"
  /\ sys = <<>>
  /\ pc = [i \in 1..Len(input) |-> "idle"]
  /\ calls = [i \in 1..Len(input) |-> <<>>]
  /\ cbs = [i \in 1..Len(input) |-> <<>>]
  /\ logged = [i \in 1..Len(input) |-> FALSE]
  /\ remote = [i \in 1..Len(input) |-> {}]
  /\ delCb = [i \in 1..Len(input) |-> "none"]
  /\ nextUuid = 0
  /\ doomedU = {}
  /\ doomedS = {}
  /\ partIn = <<>>
  /\ partPage = 0
  /\ partOut = <<>>
  /\ mapIn = NoUser
  /\ mapArg = NoUser
  /\ mapOut = NoUser
  /\ mapFirst = NoUser
  /\ cfgKind = "none"
  /\ cfgFile = NoSettings
  /\ cfgEnv = NoSettings
  /\ settings = Defaults

(* --------------------------- start-up chain --------------------------- *)
\* startImport(configUrl): initConfig, then login() issues POST /authn/login.
startImport ==
  /\ proc = "running" /\ phase = "init"
  /\ phase' = "login"
  /\ sys' = Append(sys, SysRequest("POST /authn/login", 0, <<>>, ""))
  /\ UNCHANGED <<proc, startVars, inputVars, userData, bst, searchRes, completed, final,
                 userVars, agentVars, partVars, mapVars, confVars>>

\* A faulty LoginRejected: the missing token is not noticed.
LoginRejected_Never(hasToken) == FALSE

\* if (!loginToken): the login handler gives up.
LoginRejected(hasToken) == ~hasToken

\* A faulty start of the reference tables: GET /groups is sent along with
\* GET /addresstypes, without waiting for the address types.
IssueAddressTypes_WithGroups(token) ==
  Append(Append(sys, SysRequest("GET /addresstypes", 0, <<>>, token)),
         SysRequest("GET /groups", 0, <<>>, token))

\* getAddressTypes() as called from a handler: GET /addresstypes.
IssueAddressTypes(token) ==
  Append(sys, SysRequest("GET /addresstypes", 0, <<>>, token))

\* getPatronGroups() as called from the 'end' handler of getAddressTypes.
IssuePatronGroups == Append(sys, SysRequest("GET /groups", 0, <<>>, authToken))

\* A faulty FillTable: the list is stored whatever the status and the body were.
FillTable_Always(table, list, rejected, goodBody) == Merge(table, list)

\* The 'end' handler of a reference-table request: the table is filled only from
\* a response that was not refused and whose body holds the list; otherwise the
\* failure is logged and the table is left as it was.
FillTable(table, list, rejected, goodBody) ==
  IF ~rejected /\ goodBody THEN Merge(table, list) ELSE table

\* How a reference-table request ended: refused by its status, answered with a
\* body that does not hold the list (JSON.parse or forEach throws), or filled in.
TableAnswer(rejected, goodBody) ==
  IF rejected THEN "status" ELSE IF goodBody THEN "ok" ELSE "body"

\* login, response handler of index.js: without a token the process exits;
\* otherwise the token is saved and getAddressTypes() is called.  The status
\* code of the response is not looked at.
login_response(status, hasToken) ==
  /\ variant = "index" /\ proc = "running" /\ phase = "login"
  /\ loginResp' = [state |-> "answered", status |-> status, token |-> hasToken]
  /\ IF LoginRejected(hasToken)
     THEN /\ proc' = "exited"
          /\ UNCHANGED <<phase, authToken, sys>>
     ELSE /\ authToken' = "token"
          /\ phase' = "addresstypes"
          /\ sys' = IssueAddressTypes("token")
          /\ UNCHANGED proc
  /\ UNCHANGED <<addressTypes, patronGroups, addressAns, groupAns, inputVars, userData,
                 bst, searchRes, completed, final, userVars, agentVars, partVars, mapVars, confVars>>

\* login, 'error' handler of index.js: process.exit().
login_error ==
  /\ variant = "index" /\ proc = "running" /\ phase = "login"
  /\ loginResp' = [state |-> "error", status |-> 0, token |-> FALSE]
  /\ proc' = "exited"
  /\ UNCHANGED <<phase, authToken, addressTypes, patronGroups, addressAns, groupAns,
                 inputVars, batchVars, sys, userVars, agentVars, partVars, mapVars, confVars>>

\* login, response handler of part_000: without a token the agent is destroyed
\* and the callback is not called; otherwise callback() -> getAddressTypes.
p0_login_response(status, hasToken) ==
  /\ variant = "part0" /\ proc = "running" /\ phase = "login"
  /\ loginResp' = [state |-> "answered", status |-> status, token |-> hasToken]
  /\ IF LoginRejected(hasToken)
     THEN /\ phase' = "aborted"
          /\ UNCHANGED <<authToken, sys>>
     ELSE /\ authToken' = "token"
          /\ phase' = "addresstypes"
          /\ sys' = IssueAddressTypes("token")
  /\ UNCHANGED <<proc, addressTypes, patronGroups, addressAns, groupAns, inputVars,
                 userData, bst, searchRes, completed, final, userVars, agentVars, partVars, mapVars, confVars>>

\* login, 'error' handler of part_000: keepAliveAgent.destroy(), no callback.
p0_login_error ==
  /\ variant = "part0" /\ proc = "running" /\ phase = "login"
  /\ loginResp' = [state |-> "error", status |-> 0, token |-> FALSE]
  /\ phase' = "aborted"
  /\ UNCHANGED <<proc, authToken, addressTypes, patronGroups, addressAns, groupAns,
                 inputVars, batchVars, sys, userVars, agentVars, partVars, mapVars, confVars>>

\* getAddressTypes, 'end' handler of index.js: a success status with a body that
\* holds the list fills the table; anything else is logged.  getPatronGroups()
\* is called in every case.
getAddressTypes_end(status, goodBody) ==
  /\ variant = "index" /\ proc = "running" /\ phase = "addresstypes"
  /\ addressTypes' = FillTable(addressTypes, RemoteAddressTypes, NonSuccess(status), goodBody)
  /\ addressAns' = TableAnswer(NonSuccess(status), goodBody)
  /\ phase' = "groups"
  /\ sys' = IssuePatronGroups
  /\ UNCHANGED <<proc, authToken, loginResp, patronGroups, groupAns, inputVars, batchVars,
                 userVars, agentVars, partVars, mapVars, confVars>>

\* getAddressTypes, switch of part_000: only status 200 fills the table; 401 and
\* 500 destroy the agent and fall through to the default branch; every branch
\* ends in callback() -> getPatronGroups.
p0_getAddressTypes_end(status, goodBody) ==
  /\ variant = "part0" /\ proc = "running" /\ phase = "addresstypes"
  /\ addressTypes' = FillTable(addressTypes, RemoteAddressTypes, status # 200, goodBody)
  /\ addressAns' = TableAnswer(status # 200, goodBody)
  /\ phase' = "groups"
  /\ sys' = IssuePatronGroups
  /\ UNCHANGED <<proc, authToken, loginResp, patronGroups, groupAns, inputVars, batchVars,
                 userVars, agentVars, partVars, mapVars, confVars>>

\* getAddressTypes, 'error' handler (both revisions): logs, calls nothing.
getAddressTypes_error ==
  /\ proc = "running" /\ phase = "addresstypes"
  /\ phase' = "stalled"
  /\ addressAns' = "error"
  /\ UNCHANGED <<proc, authToken, loginResp, addressTypes, patronGroups, groupAns,
                 inputVars, batchVars, sys, userVars, agentVars, partVars, mapVars, confVars>>

\* getPatronGroups, 'end' handler of index.js; readUserData() is called in
\* every case.
getPatronGroups_end(status, goodBody) ==
  /\ variant = "index" /\ proc = "running" /\ phase = "groups"
  /\ patronGroups' = FillTable(patronGroups, RemotePatronGroups, NonSuccess(status), goodBody)
  /\ groupAns' = TableAnswer(NonSuccess(status), goodBody)
  /\ phase' = "readfile"
  /\ UNCHANGED <<proc, authToken, loginResp, addressTypes, addressAns, inputVars, batchVars,
                 sys, userVars, agentVars, partVars, mapVars, confVars>>

\* getPatronGroups, switch of part_000.
p0_getPatronGroups_end(status, goodBody) ==
  /\ variant = "part0" /\ proc = "running" /\ phase = "groups"
  /\ patronGroups' = FillTable(patronGroups, RemotePatronGroups, status # 200, goodBody)
  /\ groupAns' = TableAnswer(status # 200, goodBody)
  /\ phase' = "readfile"
  /\ UNCHANGED <<proc, authToken, loginResp, addressTypes, addressAns, inputVars, batchVars,
                 sys, userVars, agentVars, partVars, mapVars, confVars>>

\* getPatronGroups, 'error' handler (both revisions): logs, calls nothing.
getPatronGroups_error ==
  /\ proc = "running" /\ phase = "groups"
  /\ phase' = "stalled"
  /\ groupAns' = "error"
  /\ UNCHANGED <<proc, authToken, loginResp, addressTypes, patronGroups, addressAns,
                 inputVars, batchVars, sys, userVars, agentVars, partVars, mapVars, confVars>>


(* ------------------- reading and partitioning the file ---------------- *)
IndexSeq(n) == [i \in 1..n |-> i]

NoSearch == [state |-> "none", status |-> 0, ok |-> FALSE, users |-> {}]

\* A faulty eachLimitStarted: every batch is started at once, as async.each does.
eachLimitStarted_All(batches) == Len(batches)

\* async.eachLimit(userData, 1, searchUsers, ...): the number of batches whose
\* searchUsers is called at once, the limit 1 (none for an empty list).
eachLimitStarted(batches) == IF batches = <<>> THEN 0 ELSE 1

\* readUserData's readFile callback followed by processUsers, index.js: a read
\* error, unparsable content and a value whose length/splice throws end the
\* process; an object without length gives no batches; a list is split into
\* batches and async.eachLimit(userData, 1, searchUsers, ...) starts the first.
readUserData_callback ==
  /\ variant = "index" /\ proc = "running" /\ phase = "readfile"
  /\ IF fileKind \in {"ioerr", "badjson", "null"}
     THEN /\ proc' = "exited"
          /\ UNCHANGED <<phase, batchVars, sys>>
     ELSE IF LoopsForever(IndexSeq(N), pageSize)
     THEN /\ phase' = "hung"
          /\ UNCHANGED <<proc, batchVars, sys>>
     ELSE LET batches == Partition(IndexSeq(N), pageSize)
          IN  /\ phase' = "run"
              /\ userData' = batches
              /\ bst' = [k \in 1..Len(batches) |->
                          IF k <= eachLimitStarted(batches) THEN "search" ELSE "pending"]
              /\ searchRes' = [k \in 1..Len(batches) |-> NoSearch]
              /\ completed' = [k \in 1..Len(batches) |-> 0]
              /\ final' = IF batches = <<>> THEN "finished" ELSE "none"
              /\ sys' = sys \o [k \in 1..eachLimitStarted(batches) |-> searchUsers(k, batches)]
              /\ UNCHANGED proc
  /\ UNCHANGED <<startVars, inputVars, userVars, agentVars, partVars, mapVars, confVars>>

\* The same of part_000: failures destroy the agent and call nothing;
\* async.each(userData, searchUsers, ...) starts every batch at once.
p0_readUserData_callback ==
  /\ variant = "part0" /\ proc = "running" /\ phase = "readfile"
  /\ IF fileKind \in {"ioerr", "badjson", "null"}
     THEN /\ phase' = "aborted"
          /\ UNCHANGED <<batchVars, sys>>
     ELSE IF LoopsForever(IndexSeq(N), pageSize)
     THEN /\ phase' = "hung"
          /\ UNCHANGED <<batchVars, sys>>
     ELSE LET batches == Partition(IndexSeq(N), pageSize)
          IN  /\ phase' = "run"
              /\ userData' = batches
              /\ bst' = [k \in 1..Len(batches) |-> "search"]
              /\ searchRes' = [k \in 1..Len(batches) |-> NoSearch]
              /\ completed' = [k \in 1..Len(batches) |-> 0]
              /\ final' = IF batches = <<>> THEN "finished" ELSE "none"
              /\ sys' = sys \o [k \in 1..Len(batches) |-> searchUsers(k, batches)]
  /\ UNCHANGED <<proc, startVars, inputVars, userVars, agentVars, partVars, mapVars, confVars>>

(* ------------------------ existence reconciliation -------------------- *)
\* Bodies the remote service can answer an existence query of batch k with: not
\* parsable into a user list, or a list of remote records (of the batch or not).
SearchBodies(k) ==
  {[ok |-> FALSE, users |-> {}]} \cup
  {[ok |-> TRUE, users |-> u] :
     u \in SUBSET {RemoteRecord(e) :
                     e \in {users[userData[k][j]].externalSystemId : j \in 1..Len(userData[k])}
                           \cup {ForeignExt}}}

\* if (response.status < 200 || response.status > 299) of searchUsers in index.js:
\* the response has no field `status`, both comparisons with undefined are false.
SearchStatusRejected(status) == FALSE

\* A faulty Unparsable: the parse failure is swallowed and the batch is imported
\* as if no remote record existed.
Unparsable_Ignored(body) == FALSE

\* JSON.parse(rawData) throws, or the parsed body holds no list `users` (the
\* forEach of importUsers throws): the catch block of the handler runs.
Unparsable(body) == ~body.ok

\* existingUsers.forEach(...) of importUsers: the id record i has afterwards.
MatchedId(i, existing) ==
  IF \E r \in existing : r.externalSystemId = users[i].externalSystemId
  THEN (CHOOSE r \in existing : r.externalSystemId = users[i].externalSystemId).id
  ELSE users[i].id

\* if (user.id) updateUser(...) else createUser(...)
GoesToUpdate(id) == id # ""

\* importUsers(userList, existingUsers, callback): ids of matched records are
\* set, then every record of the batch is started: updateUser issues PUT
\* /users/{id}; createUser assigns a fresh uuid and issues POST /users.
importUsers(k, existing) ==
  LET batch == userData[k]
      members == {batch[j] : j \in 1..Len(batch)}
      pos(i) == CHOOSE j \in 1..Len(batch) : batch[j] = i
      upd == {i \in members : GoesToUpdate(MatchedId(i, existing))}
      rank(i) == Cardinality({m \in members \ upd : pos(m) <= pos(i)})
      newId(i) == IF i \in upd THEN MatchedId(i, existing) ELSE UuidName[nextUuid + rank(i)]
  IN  /\ users' = [i \in Users |-> IF i \in members THEN [users[i] EXCEPT !.id = newId(i)]
                                   ELSE users[i]]
      /\ calls' = [i \in Users |->
                     IF i \notin members THEN calls[i]
                     ELSE IF i \in upd
                     THEN Append(calls[i], createRequest("PUT", "/users", newId(i)))
                     ELSE Append(calls[i], createRequest("POST", "/users", newId(i)))]
      /\ pc' = [i \in Users |-> IF i \notin members THEN pc[i]
                                ELSE IF i \in upd THEN "PUT /users" ELSE "POST /users"]
      /\ nextUuid' = nextUuid + Cardinality(members \ upd)

\* searchUsers, 'end' handler of index.js.
searchUsers_end(k, status, body) ==
  /\ variant = "index" /\ proc = "running" /\ k \in Batches /\ bst[k] = "search"
  /\ searchRes' = [searchRes EXCEPT ![k] = [state |-> "answered", status |-> status,
                                            ok |-> body.ok, users |-> body.users]]
  /\ IF SearchStatusRejected(status) \/ Unparsable(body)
     THEN /\ SetLoop(BatchCallback(LoopState, k, TRUE, 0))
          /\ UNCHANGED userVars
     ELSE /\ importUsers(k, body.users)
          /\ SetLoop([LoopState EXCEPT !.bst[k] = "import"])
          /\ UNCHANGED <<cbs, logged, remote, delCb>>
  /\ TablesKept
  /\ UNCHANGED sessionVars
  /\ UNCHANGED <<proc, phase, inputVars, userData, partVars, mapVars, confVars>>

\* searchUsers, switch of part_000: only status 200 is parsed and imported.
p0_searchUsers_end(k, status, body) ==
  /\ variant = "part0" /\ proc = "running" /\ k \in Batches /\ bst[k] = "search"
  /\ k \notin doomedS
  /\ searchRes' = [searchRes EXCEPT ![k] = [state |-> "answered", status |-> status,
                                            ok |-> body.ok, users |-> body.users]]
  /\ IF status # 200 \/ Unparsable(body)
     THEN /\ SetLoop(BatchCallback(LoopState, k, TRUE, 0))
          /\ UNCHANGED userVars
     ELSE /\ importUsers(k, body.users)
          /\ SetLoop([LoopState EXCEPT !.bst[k] = "import"])
          /\ UNCHANGED <<cbs, logged, remote, delCb>>
  /\ TablesKept
  /\ UNCHANGED sessionVars
  /\ UNCHANGED <<proc, phase, inputVars, userData, partVars, mapVars, confVars>>

\* searchUsers, 'error' handler (both revisions): callback(e).
searchUsers_error(k) ==
  /\ proc = "running" /\ k \in Batches /\ bst[k] = "search"
  /\ searchRes' = [searchRes EXCEPT ![k] = [NoSearch EXCEPT !.state = "error"]]
  /\ SetLoop([BatchCallback(LoopState, k, TRUE, 0) EXCEPT !.doomedS = @ \ {k}])
  /\ TablesKept
  /\ UNCHANGED sessionVars
  /\ UNCHANGED <<proc, phase, inputVars, userData, userVars, partVars, mapVars, confVars>>


(* ---------------------- per-record handler endings -------------------- *)
\* A faulty Complete: the callback is called in the try block and once more, with
\* the exception, in the catch block of the handler.
Complete_Twice(i, err, newCalls, failed, newRemote) ==
  /\ calls' = [calls EXCEPT ![i] = newCalls]
  /\ logged' = [logged EXCEPT ![i] = @ \/ failed]
  /\ remote' = [remote EXCEPT ![i] = newRemote]
  /\ pc' = [pc EXCEPT ![i] = "done"]
  /\ cbs' = [cbs EXCEPT ![i] = Append(Append(@, IF err THEN "err" ELSE "ok"), "err")]
  /\ SetLoop([userCallback(LoopState, i, err) EXCEPT !.doomedU = @ \ {i}])
  /\ TablesKept
  /\ UNCHANGED sessionVars
  /\ UNCHANGED <<proc, phase, inputVars, userData, searchRes,
                 users, delCb, nextUuid, partVars, mapVars, confVars>>

\* The handler of record i ends by calling the record's completion callback.
Complete(i, err, newCalls, failed, newRemote) ==
  /\ calls' = [calls EXCEPT ![i] = newCalls]
  /\ logged' = [logged EXCEPT ![i] = @ \/ failed]
  /\ remote' = [remote EXCEPT ![i] = newRemote]
  /\ pc' = [pc EXCEPT ![i] = "done"]
  /\ cbs' = [cbs EXCEPT ![i] = Append(@, IF err THEN "err" ELSE "ok")]
  /\ SetLoop([userCallback(LoopState, i, err) EXCEPT !.doomedU = @ \ {i}])
  /\ TablesKept
  /\ UNCHANGED sessionVars
  /\ UNCHANGED <<proc, phase, inputVars, userData, searchRes,
                 users, delCb, nextUuid, partVars, mapVars, confVars>>

\* The handler of record i ends by issuing the next request of the record.
Continue(i, newCalls, request, failed, newRemote, newDelCb) ==
  /\ calls' = [calls EXCEPT ![i] = Append(newCalls, request)]
  /\ logged' = [logged EXCEPT ![i] = @ \/ failed]
  /\ remote' = [remote EXCEPT ![i] = newRemote]
  /\ pc' = [pc EXCEPT ![i] = request.op]
  /\ delCb' = [delCb EXCEPT ![i] = newDelCb]
  /\ TablesKept
  /\ UNCHANGED sessionVars
  /\ UNCHANGED <<proc, phase, inputVars, batchVars, sys, users, cbs,
                 nextUuid, agentVars, partVars, mapVars, confVars>>

\* The handler of record i throws and nothing catches it: the process dies.
Crash(i, newCalls, failed, newRemote) ==
  /\ calls' = [calls EXCEPT ![i] = newCalls]
  /\ logged' = [logged EXCEPT ![i] = @ \/ failed]
  /\ remote' = [remote EXCEPT ![i] = newRemote]
  /\ pc' = [pc EXCEPT ![i] = "dead"]
  /\ proc' = "crashed"
  /\ TablesKept
  /\ UNCHANGED sessionVars
  /\ UNCHANGED <<phase, inputVars, batchVars, sys, users, cbs, delCb,
                 nextUuid, agentVars, partVars, mapVars, confVars>>

\* A response for record i's request `op` can be handled.
Awaiting(i, op) ==
  /\ proc = "running" /\ i \in Users /\ pc[i] = op /\ i \notin doomedU

\* The 'error' event of record i's request `op` can be handled.
Failing(i, op) ==
  /\ proc = "running" /\ i \in Users /\ pc[i] = op

(* ------------------------------ updateUser ---------------------------- *)
\* A faulty updateUserPassesError: the commented-out callback(new Error(...)) of
\* the failure branch is live.
updateUserPassesError_OnFailure(status) == NonSuccess(status)

\* updateUser of index.js: both branches of the status check call callback()
\* (the callback(new Error(...)) of the failure branch is commented out).
updateUserPassesError(status) == FALSE

\* updateUser, 'end' handler of index.js.
updateUser_end(i, status) ==
  /\ variant = "index" /\ Awaiting(i, "PUT /users")
  /\ Complete(i, updateUserPassesError(status), Answered(calls[i], status),
              NonSuccess(status), remote[i])

\* updateUser, switch of part_000: 204 succeeds; 401, 403 and 500 pass an Error to
\* the callback; every other status is logged and calls callback().
p0_updateUser_end(i, status) ==
  /\ variant = "part0" /\ Awaiting(i, "PUT /users")
  /\ Complete(i, status \in {401, 403, 500}, Answered(calls[i], status),
              status # 204, remote[i])

\* updateUser, 'error' handler (both revisions): callback(e).
updateUser_error(i) ==
  /\ Failing(i, "PUT /users")
  /\ Complete(i, TRUE, Errored(calls[i]), TRUE, remote[i])

(* ------------------------------ createUser ---------------------------- *)
\* A faulty createUserFailed: the status of the create-record call is not checked.
createUserFailed_Never(status) == FALSE

\* if (response.statusCode > 299 || response.statusCode < 200) in createUser.
createUserFailed(status) == NonSuccess(status)

\* createUser, 'end' handler of index.js: a failure status is logged and calls
\* callback(); success goes on to createCredentials(user, callback).
createUser_end(i, status) ==
  /\ variant = "index" /\ Awaiting(i, "POST /users")
  /\ IF createUserFailed(status)
     THEN Complete(i, FALSE, Answered(calls[i], status), TRUE, remote[i])
     ELSE Continue(i, Answered(calls[i], status),
                   createRequest("POST", "/authn/credentials", users[i].username),
                   FALSE, remote[i] \cup {"user"}, delCb[i])

\* createUser, switch of part_000: 201 goes on to applyEmptyPermissionSet; 401,
\* 403 and 500 pass an Error; every other status is logged and calls callback().
p0_createUser_end(i, status) ==
  /\ variant = "part0" /\ Awaiting(i, "POST /users")
  /\ LET created == IF NonSuccess(status) THEN remote[i] ELSE remote[i] \cup {"user"}
     IN  IF status = 201
         THEN Continue(i, Answered(calls[i], status),
                       createRequest("POST", "/perms/users", users[i].username),
                       FALSE, created, delCb[i])
         ELSE Complete(i, status \in {401, 403, 500}, Answered(calls[i], status),
                       TRUE, created)

\* createUser, 'error' handler (both revisions): callback(e).
createUser_error(i) ==
  /\ Failing(i, "POST /users")
  /\ Complete(i, TRUE, Errored(calls[i]), TRUE, remote[i])


(* ------------------- createCredentials and the rollback --------------- *)
\* deleteUser(callback), as createCredentials calls it on a failure status: the
\* parameter `user` receives the callback function (which has no id, so the path
\* is '/users/undefined') and the parameter `callback` receives nothing.
CredentialFailureDelete(i) ==
  [request |-> createRequest("DELETE", "/users", Undefined), delCb |-> "undefined"]

\* removeUserCredentials(user, callback, function (err, user, callback) {...}),
\* as applyEmptyPermissionSet calls it on a failure status.
PermissionFailureRollback(i) ==
  [request |-> createRequest("DELETE", "/authn/credentials", users[i].username),
   delCb |-> delCb[i]]

\* deleteUser(user, callback), as the continuation of removeUserCredentials
\* calls it after the credentials were removed.
RollbackDelete(i) ==
  [request |-> createRequest("DELETE", "/users", users[i].id), delCb |-> "callback"]

\* A faulty createCredentialsFailed: the status of the create-credential call is
\* not checked.
createCredentialsFailed_Never(status) == FALSE

\* if (response.statusCode > 299 || response.statusCode < 200) in createCredentials.
createCredentialsFailed(status) == NonSuccess(status)

\* createCredentials, 'end' handler: a failure status is logged and
\* deleteUser(callback) is called; success goes on to applyEmptyPermissionSet.
createCredentials_end(i, status) ==
  /\ variant = "index" /\ Awaiting(i, "POST /authn/credentials")
  /\ IF createCredentialsFailed(status)
     THEN Continue(i, Answered(calls[i], status), CredentialFailureDelete(i).request,
                   TRUE, remote[i], CredentialFailureDelete(i).delCb)
     ELSE Continue(i, Answered(calls[i], status),
                   createRequest("POST", "/perms/users", users[i].username),
                   FALSE, remote[i] \cup {"cred"}, delCb[i])

\* createCredentials, 'error' handler: callback(e).
createCredentials_error(i) ==
  /\ variant = "index" /\ Failing(i, "POST /authn/credentials")
  /\ Complete(i, TRUE, Errored(calls[i]), TRUE, remote[i])

\* applyEmptyPermissionSet, 'end' handler of index.js: a failure status starts the
\* rollback with removeUserCredentials; success calls callback().
applyEmptyPermissionSet_end(i, status) ==
  /\ variant = "index" /\ Awaiting(i, "POST /perms/users")
  /\ IF NonSuccess(status)
     THEN Continue(i, Answered(calls[i], status), PermissionFailureRollback(i).request,
                   TRUE, remote[i], PermissionFailureRollback(i).delCb)
     ELSE Complete(i, FALSE, Answered(calls[i], status), FALSE, remote[i] \cup {"perm"})

\* applyEmptyPermissionSet, switch of part_000: 201 succeeds, 500 passes an Error,
\* every other status is logged and calls callback().
p0_applyEmptyPermissionSet_end(i, status) ==
  /\ variant = "part0" /\ Awaiting(i, "POST /perms/users")
  /\ Complete(i, status = 500, Answered(calls[i], status), status # 201,
              IF NonSuccess(status) THEN remote[i] ELSE remote[i] \cup {"perm"})

\* applyEmptyPermissionSet registers no 'error' listener on its request (both
\* revisions): a transport error is an unhandled 'error' event.
applyEmptyPermissionSet_error(i) ==
  /\ Failing(i, "POST /perms/users")
  /\ Crash(i, Errored(calls[i]), FALSE, remote[i])

\* removeUserCredentials, 'end' handler.  Success: callback(null, user,
\* finalCallback), whose continuation calls deleteUser(user, callback).
\* Failure: callback(new Error(...)) with one argument; the continuation then
\* calls its own third parameter, which is undefined: the TypeError is caught by
\* the handler's catch, which calls callback(e) and throws the same way again,
\* this time uncaught.
removeUserCredentials_end(i, status) ==
  /\ variant = "index" /\ Awaiting(i, "DELETE /authn/credentials")
  /\ IF NonSuccess(status)
     THEN Crash(i, Answered(calls[i], status), TRUE, remote[i])
     ELSE Continue(i, Answered(calls[i], status), RollbackDelete(i).request,
                   FALSE, remote[i] \ {"cred"}, RollbackDelete(i).delCb)

\* removeUserCredentials, 'error' handler: callback(e) runs the continuation with
\* an error and no callback parameter: uncaught TypeError.
removeUserCredentials_error(i) ==
  /\ variant = "index" /\ Failing(i, "DELETE /authn/credentials")
  /\ Crash(i, Errored(calls[i]), TRUE, remote[i])

\* What a DELETE /users/{target} answered with `status` leaves of record i.
AfterDelete(i, status) ==
  IF ~NonSuccess(status) /\ calls[i][Len(calls[i])].target = users[i].id
  THEN remote[i] \ {"user"} ELSE remote[i]

\* deleteUser, 'end' handler: callback(new Error(...)) on a failure status,
\* callback() on success.  When the parameter `callback` is undefined either call
\* throws a TypeError, the catch calls callback(e) and throws again, uncaught.
deleteUser_end(i, status) ==
  /\ variant = "index" /\ Awaiting(i, "DELETE /users")
  /\ IF delCb[i] = "undefined"
     THEN Crash(i, Answered(calls[i], status), NonSuccess(status), AfterDelete(i, status))
     ELSE Complete(i, NonSuccess(status), Answered(calls[i], status), NonSuccess(status),
                   AfterDelete(i, status))

\* deleteUser, 'error' handler: callback(e).
deleteUser_error(i) ==
  /\ variant = "index" /\ Failing(i, "DELETE /users")
  /\ IF delCb[i] = "undefined"
     THEN Crash(i, Errored(calls[i]), TRUE, remote[i])
     ELSE Complete(i, TRUE, Errored(calls[i]), TRUE, remote[i])

(* ------------------------------- Next --------------------------------- *)
\* Bound on the environment: irregular start-up answers are explored for files
\* of at most MaxDegradedUsers records.
Regular(status, good) == ~NonSuccess(status) /\ good
Explored(status, good) == Regular(status, good) \/ Len(input) <= MaxDegradedUsers

Next ==
  \/ startImport
  \/ \E st \in LoginStatuses, tok \in BOOLEAN :
       (~tok \/ Explored(st, TRUE)) /\ login_response(st, tok)
  \/ login_error
  \/ \E st \in LoginStatuses, tok \in BOOLEAN :
       (~tok \/ Explored(st, TRUE)) /\ p0_login_response(st, tok)
  \/ p0_login_error
  \/ \E st \in GetStatuses, good \in BOOLEAN :
       Explored(st, good) /\ getAddressTypes_end(st, good)
  \/ \E st \in GetStatuses, good \in BOOLEAN :
       Explored(st, good) /\ p0_getAddressTypes_end(st, good)
  \/ getAddressTypes_error
  \/ \E st \in GetStatuses, good \in BOOLEAN :
       Explored(st, good) /\ getPatronGroups_end(st, good)
  \/ \E st \in GetStatuses, good \in BOOLEAN :
       Explored(st, good) /\ p0_getPatronGroups_end(st, good)
  \/ getPatronGroups_error
  \/ readUserData_callback
  \/ p0_readUserData_callback
  \/ \E k \in Batches, st \in SearchStatuses :
       \E body \in SearchBodies(k) : searchUsers_end(k, st, body)
  \/ \E k \in Batches, st \in SearchStatuses :
       \E body \in SearchBodies(k) : p0_searchUsers_end(k, st, body)
  \/ \E k \in Batches : searchUsers_error(k)
  \/ \E i \in Users, st \in PutStatuses : updateUser_end(i, st)
  \/ \E i \in Users, st \in SwitchPutStatuses : p0_updateUser_end(i, st)
  \/ \E i \in Users : updateUser_error(i)
  \/ \E i \in Users, st \in PostStatuses : createUser_end(i, st)
  \/ \E i \in Users, st \in SwitchPostStatuses : p0_createUser_end(i, st)
  \/ \E i \in Users : createUser_error(i)
  \/ \E i \in Users, st \in PostStatuses : createCredentials_end(i, st)
  \/ \E i \in Users : createCredentials_error(i)
  \/ \E i \in Users, st \in PostStatuses : applyEmptyPermissionSet_end(i, st)
  \/ \E i \in Users, st \in SwitchPostStatuses : p0_applyEmptyPermissionSet_end(i, st)
  \/ \E i \in Users : applyEmptyPermissionSet_error(i)
  \/ \E i \in Users, st \in DeleteStatuses : removeUserCredentials_end(i, st)
  \/ \E i \in Users : removeUserCredentials_error(i)
  \/ \E i \in Users, st \in DeleteStatuses : deleteUser_end(i, st)
  \/ \E i \in Users : deleteUser_error(i)

Spec == Init /\ [][Next]_vars


(* -------------------- the partitioning specification ------------------ *)
\* The batching loop of processUsers on its own, on longer lists than the
\* pipeline above explores.
PartItems == {"a", "b"}
PartLists == UNION {[1..n -> PartItems] : n \in 0..MaxPartLen}

InitPart ==
  /\ variant = "index"
  /\ proc = "running"
  /\ phase = "partition"
  /\ authToken = ""
  /\ loginResp = [state |-> "none", status |-> 0, token |-> FALSE]
  /\ addressTypes = <<>>
  /\ patronGroups = <<>>
  /\ addressAns = "none"
  /\ groupAns = "none"
  /\ fileKind = "list"
  /\ input = <<>>
  /\ pageSize = 0
  /\ users = <<>>
  /\ userData = <<>>
  /\ bst = <<>>
  /\ searchRes = <<>>
  /\ completed = <<>>
  /\ final = "none"
  /\ sys = <<>>
  /\ pc = <<>>
  /\ calls = <<>>
  /\ cbs = <<>>
  /\ logged = <<>>
  /\ remote = <<>>
  /\ delCb = <<>>
  /\ nextUuid = 0
  /\ doomedU = {}
  /\ doomedS = {}
  /\ partIn \in PartLists
  /\ partPage \in (0 - 1)..MaxPartPage
  /\ partOut = <<>>
  /\ mapIn = NoUser
  /\ mapArg = NoUser
  /\ mapOut = NoUser
  /\ mapFirst = NoUser
  /\ cfgKind = "none"
  /\ cfgFile = NoSettings
  /\ cfgEnv = NoSettings
  /\ settings = Defaults

\* let data = JSON.parse(usersDataString);
\* while (data.length) { userData.push(data.splice(0, folioPageSize)); }
processUsers_partition ==
  /\ phase = "partition"
  /\ IF LoopsForever(partIn, partPage)
     THEN /\ phase' = "hung"
          /\ UNCHANGED partOut
     ELSE /\ phase' = "partitioned"
          /\ partOut' = Partition(partIn, partPage)
  /\ UNCHANGED <<variant, proc, startVars, fileKind, input, pageSize, batchVars, sys,
                 userVars, agentVars, partIn, partPage, mapVars, confVars>>

NextPart == processUsers_partition

SpecPart == InitPart /\ [][NextPart]_vars


(* --------------------- the translation specification ------------------ *)
\* mapUserData on its own, on records and tables of every shape.
GroupValues == {Absent, "", "staff", "ghost"}
ContactValues == {Absent, "", "email", "fax"}
TypeValues == {Absent, "", "Home", "Work"}
AddressLists ==
  UNION {{[n \in 1..len |-> [addressTypeId |-> t[n], line |-> n]] :
            t \in [1..len -> TypeValues]} : len \in 0..MaxAddresses}
MapUsers ==
  {u \in [patronGroup : GroupValues, hasPersonal : BOOLEAN,
          preferredContactTypeId : ContactValues, hasAddresses : BOOLEAN,
          addresses : AddressLists] :
     /\ (~u.hasPersonal => u.preferredContactTypeId = Absent /\ ~u.hasAddresses)
     /\ (~u.hasAddresses => u.addresses = <<>>)}
\* The tables the start-up chain can have left behind.
AddressTables == {[n \in D |-> "at-" \o n] : D \in SUBSET {"Home", "Work"}}
GroupTables == {[n \in D |-> "pg-" \o n] : D \in SUBSET {"staff"}}

InitMap ==
  /\ variant \in Variants
  /\ proc = "running"
  /\ phase = "map"
  /\ authToken = "token"
  /\ loginResp = [state |-> "answered", status |-> 201, token |-> TRUE]
  /\ addressTypes \in AddressTables
  /\ patronGroups \in GroupTables
  /\ addressAns = "ok"
  /\ groupAns = "ok"
  /\ fileKind = "list"
  /\ input = <<>>
  /\ pageSize = 0
  /\ users = <<>>
  /\ userData = <<>>
  /\ bst = <<>>
  /\ searchRes = <<>>
  /\ completed = <<>>
  /\ final = "none"
  /\ sys = <<>>
  /\ pc = <<>>
  /\ calls = <<>>
  /\ cbs = <<>>
  /\ logged = <<>>
  /\ remote = <<>>
  /\ delCb = <<>>
  /\ nextUuid = 0
  /\ doomedU = {}
  /\ doomedS = {}
  /\ partIn = <<>>
  /\ partPage = 0
  /\ partOut = <<>>
  /\ mapIn \in MapUsers
  /\ mapArg = mapIn
  /\ mapOut = NoUser
  /\ mapFirst = NoUser
  /\ cfgKind = "none"
  /\ cfgFile = NoSettings
  /\ cfgEnv = NoSettings
  /\ settings = Defaults

\* The object passed to mapUserData, after the call: every assignment and delete
\* of the function is made on the fields of its parameter `user`, and `return
\* user` hands the same object back; no copy is made.
AfterCall(user) == mapUserData(user)

\* user = mapUserData(user), as updateUser and createUser call it.
mapUserData_call ==
  /\ phase = "map"
  /\ phase' = "mapped"
  /\ mapOut' = mapUserData(mapIn)
  /\ mapFirst' = mapUserData(mapIn)
  /\ mapArg' = AfterCall(mapArg)
  /\ UNCHANGED <<variant, proc, startVars, fileKind, input, pageSize, batchVars, sys,
                 userVars, agentVars, partVars, mapIn, confVars>>

\* mapUserData(user) once more on the same record.  mapUserData assigns to and
\* deletes from the object it was given and returns that object, so the second
\* call works on what the first call left.
mapUserData_again ==
  /\ phase = "mapped"
  /\ phase' = "mapped2"
  /\ mapOut' = mapUserData(mapOut)
  /\ mapArg' = AfterCall(mapArg)
  /\ UNCHANGED <<variant, proc, startVars, fileKind, input, pageSize, batchVars, sys,
                 userVars, agentVars, partVars, mapIn, mapFirst, confVars>>

NextMap == mapUserData_call \/ mapUserData_again

SpecMap == InitMap /\ [][NextMap]_vars


(* -------------------- the configuration specification ----------------- *)
\* startImport(configUrl) with every kind of config file and environment.
FileValues == {Absent, "", "fromFile"}
EnvValues == {Absent, "", "fromEnv"}
SettingRecords(values) ==
  [FOLIO_FILENAME : values, FOLIO_PAGESIZE : values]
\* "none": no configUrl was given; "unloadable": require(configUrl) throws (no
\* such file, no valid JSON); "loaded": require returned the file's settings.
ConfigKinds == {"none", "unloadable", "loaded"}

InitConfig ==
  /\ variant \in Variants
  /\ proc = "running"
  /\ phase = "config"
  /\ authToken = ""
  /\ loginResp = [state |-> "none", status |-> 0, token |-> FALSE]
  /\ addressTypes = <<>>
  /\ patronGroups = <<>>
  /\ addressAns = "none"
  /\ groupAns = "none"
  /\ fileKind = "list"
  /\ input = <<>>
  /\ pageSize = 0
  /\ users = <<>>
  /\ userData = <<>>
  /\ bst = <<>>
  /\ searchRes = <<>>
  /\ completed = <<>>
  /\ final = "none"
  /\ sys = <<>>
  /\ pc = <<>>
  /\ calls = <<>>
  /\ cbs = <<>>
  /\ logged = <<>>
  /\ remote = <<>>
  /\ delCb = <<>>
  /\ nextUuid = 0
  /\ doomedU = {}
  /\ doomedS = {}
  /\ partIn = <<>>
  /\ partPage = 0
  /\ partOut = <<>>
  /\ mapIn = NoUser
  /\ mapArg = NoUser
  /\ mapOut = NoUser
  /\ mapFirst = NoUser
  /\ cfgKind \in ConfigKinds
  /\ cfgFile \in SettingRecords(FileValues)
  /\ (cfgKind # "loaded" => cfgFile = NoSettings)
  /\ cfgEnv \in SettingRecords(EnvValues)
  /\ settings = FromEnvironment(cfgEnv)

\* startImport(configUrl): initConfig(configUrl), then login().
startImport_config ==
  /\ proc = "running" /\ phase = "config"
  /\ IF (IF variant = "index" THEN initConfigThrows(cfgKind) ELSE p0_initConfigThrows(cfgKind))
     THEN /\ proc' = "crashed"
          /\ UNCHANGED <<phase, sys, settings>>
     ELSE /\ settings' = IF cfgKind = "loaded" THEN FromConfig(cfgFile, settings) ELSE settings
          /\ phase' = "login"
          /\ sys' = Append(sys, SysRequest("POST /authn/login", 0, <<>>, ""))
          /\ UNCHANGED proc
  /\ UNCHANGED <<variant, startVars, fileKind, input, pageSize, batchVars, userVars,
                 agentVars, partVars, mapVars, cfgKind, cfgFile, cfgEnv>>

NextConfig == startImport_config

SpecConfig == InitConfig /\ [][NextConfig]_vars


(* ======================= properties of the claims ===================== *)
\* Positions of record i's calls of kind op.
CallsOf(i, op) == {n \in 1..Len(calls[i]) : calls[i][n].op = op}
Issued(i, op) == CallsOf(i, op) # {}
\* Record i's (first) call of kind op.
Call(i, op) == calls[i][CHOOSE n \in CallsOf(i, op) : \A m \in CallsOf(i, op) : n <= m]
Position(i, op) == CHOOSE n \in CallsOf(i, op) : \A m \in CallsOf(i, op) : n <= m

Succeeded(c) == c.state = "answered" /\ ~NonSuccess(c.status)
Refused(c) == c.state = "answered" /\ NonSuccess(c.status)
Broken(c) == c.state = "error"

StepOk(i, op) == Issued(i, op) /\ Succeeded(Call(i, op))
StepRefused(i, op) == Issued(i, op) /\ Refused(Call(i, op))
StepBroken(i, op) == Issued(i, op) /\ Broken(Call(i, op))

\* The record's operation has completed: its completion callback was invoked.
Completed(i) == cbs[i] # <<>>
\* Nothing more will happen for the record: no request of it is awaited, or the
\* process is gone.
Settled(i) == calls[i] # <<>> /\ (pc[i] \notin InFlight \/ proc # "running")

\* The outcome of a record, as the log and the completion callback show it.
Outcome(i) ==
  IF ~Completed(i) THEN "none"
  ELSE IF logged[i] \/ cbs[i][1] = "err" THEN "Failed"
  ELSE IF Issued(i, "PUT /users") THEN "Updated"
  ELSE "Created"

\* DELETE /users/{id} calls of record i that name the record's own id.
RecordDeletes(i) ==
  {n \in CallsOf(i, "DELETE /users") : calls[i][n].target = users[i].id}

\* Every rollback call issued for the record was answered with success.
RollbacksOk(i) ==
  \A n \in CallsOf(i, "DELETE /users") \cup CallsOf(i, "DELETE /authn/credentials") :
     Succeeded(calls[i][n])
\* Some rollback call of the record was refused or broke.
RollbackFailed(i) ==
  \E n \in CallsOf(i, "DELETE /users") \cup CallsOf(i, "DELETE /authn/credentials") :
     Refused(calls[i][n]) \/ Broken(calls[i][n])

(* C1: when POST /users succeeded and POST /authn/credentials was refused,       *)
(* exactly one DELETE /users/{id} naming the record is issued, and the record    *)
(* completes as Failed.                                                          *)
C1_CredentialFailureDeletesRecord ==
  \A i \in Users :
    (variant = "index" /\ StepOk(i, "POST /users")
       /\ StepRefused(i, "POST /authn/credentials"))
    => /\ Cardinality(RecordDeletes(i)) = 1
       /\ (Settled(i) => Outcome(i) = "Failed")

(* C2: after POST /users and POST /authn/credentials succeeded and POST          *)
(* /perms/users was refused, a credential-delete and a record-delete are both    *)
(* issued, in that order, before the record completes as Failed.  Stated on the  *)
(* record once nothing more happens for it.                                      *)
C2_BothDeletesAlwaysIssued ==
  \A i \in Users :
    (variant = "index" /\ StepRefused(i, "POST /perms/users") /\ Settled(i))
    => /\ Issued(i, "DELETE /authn/credentials")
       /\ Cardinality(RecordDeletes(i)) = 1
       /\ Position(i, "DELETE /authn/credentials") < Position(i, "DELETE /users")
       /\ Outcome(i) = "Failed"

\* What does hold of the rollback: after POST /perms/users was refused the
\* credential-delete is issued next; the record-delete is issued next after it
\* exactly when the credential-delete was answered with success, and names the
\* record's id; a record that completes has had both, in that order.
RollbackOrder ==
  \A i \in Users :
    (variant = "index" /\ StepRefused(i, "POST /perms/users"))
    => LET p == Position(i, "POST /perms/users")
       IN  /\ Len(calls[i]) > p
           /\ calls[i][p + 1].op = "DELETE /authn/credentials"
           /\ calls[i][p + 1].target = users[i].username
           /\ (Succeeded(calls[i][p + 1])
                 <=> (Len(calls[i]) > p + 1 /\ calls[i][p + 2].op = "DELETE /users"))
           /\ CallsOf(i, "DELETE /users") = RecordDeletes(i)
           /\ \A n \in CallsOf(i, "DELETE /users") : n = p + 2
           /\ (Completed(i) => /\ Succeeded(calls[i][p + 1])
                               /\ Cardinality(RecordDeletes(i)) = 1
                               /\ calls[i][p + 2].state # "pending"
                               /\ Outcome(i) = "Failed")

\* A refused permission call was rolled back completely and the record completed.
RollbackOrder_Reached ==
  \E i \in Users :
    /\ variant = "index" /\ StepRefused(i, "POST /perms/users")
    /\ StepOk(i, "DELETE /authn/credentials") /\ StepOk(i, "DELETE /users")
    /\ Completed(i)

(* C3: when a record's create operation completes and every rollback call        *)
(* issued was answered with success, the remote service holds the record, its    *)
(* credential and its permission set, or none of them.                           *)
C3_AllOrNothing ==
  \A i \in Users :
    (variant = "index" /\ Issued(i, "POST /users") /\ Completed(i) /\ RollbacksOk(i))
    => remote[i] \in {{}, {"user", "cred", "perm"}}


\* Every call issued for the record so far was answered with success or is
\* still awaited.
NoFailure(i) == \A n \in 1..Len(calls[i]) : ~Refused(calls[i][n]) /\ ~Broken(calls[i][n])
\* A creation step of the record failed and a rollback call was issued for it.
Compensated(i) ==
  /\ Issued(i, "POST /users") /\ ~NoFailure(i)
  /\ (Issued(i, "DELETE /users") \/ Issued(i, "DELETE /authn/credentials"))
\* The run is over: the process is gone, or no request is awaited any more.
RunOver ==
  \/ proc # "running"
  \/ phase = "run" /\ (\A i \in Users : pc[i] \notin InFlight)
                   /\ (\A k \in Batches : bst[k] # "search")
Members(k) == {userData[k][j] : j \in 1..Len(userData[k])}

(* C4: within one batch, when one to-create record fails a creation step and is  *)
(* compensated, every other record of the batch whose own calls all succeed      *)
(* still completes as Created or Updated.  Stated on the run once it is over.    *)
C4_SiblingsComplete ==
  \A i \in Users : \A j \in Users :
    (variant = "index" /\ i # j /\ calls[i] # <<>> /\ calls[j] # <<>>
       /\ BatchOf(i) = BatchOf(j) /\ Compensated(i) /\ NoFailure(j) /\ RunOver)
    => Outcome(j) \in {"Created", "Updated"}

\* No rollback call of a record of batch k was refused or broke.
NoRollbackFailure(k) == \A i \in Members(k) : ~RollbackFailed(i)

(* C5: a failure of a record's create, update, credential or permission call     *)
(* (failure status or transport error) becomes that record's outcome and is no   *)
(* error of the batch loop: the batch does not end in error, the process goes    *)
(* on, and the existence query of the next batch is issued once the batch is     *)
(* through.  Rollback failures are left to C6.                                   *)
C5_RecordFailuresStayLocal ==
  \A k \in Batches :
    (variant = "index" /\ bst[k] \in {"import", "done", "error"}
       /\ searchRes[k].state = "answered" /\ searchRes[k].ok /\ NoRollbackFailure(k))
    => /\ bst[k] # "error"
       /\ \A i \in Members(k) : pc[i] # "dead" /\ (Completed(i) => cbs[i] = <<"ok">>)
       /\ ((\A i \in Members(k) : Completed(i)) /\ k < Len(userData)
             => bst[k + 1] # "pending")

(* C6: when a rollback delete call (credentials or record) fails, the failure is *)
(* only logged: no error reaches the batch or the run, the process goes on, and  *)
(* the record's outcome stays Failed.                                            *)
C6_RollbackFailureOnlyLogged ==
  \A i \in Users :
    (variant = "index" /\ RollbackFailed(i))
    => /\ proc # "crashed"
       /\ bst[BatchOf(i)] # "error"
       /\ final # "failed"
       /\ (Settled(i) => Outcome(i) = "Failed" /\ cbs[i] = <<"ok">>)

\* The record was sent to updateUser: its first call is the PUT.
SentToUpdate(i) == calls[i] # <<>> /\ calls[i][1].op = "PUT /users"
SentToCreate(i) == calls[i] # <<>> /\ calls[i][1].op = "POST /users"

LoginFailed ==
  \/ loginResp.state = "error"
  \/ loginResp.state = "answered" /\ ~loginResp.token

(* C8: when the login call fails, the login request is the only remote call of   *)
(* the run and no batch is processed (both revisions).                           *)
C8_NoCallAfterFailedLogin ==
  LoginFailed
  => /\ Len(sys) = 1 /\ sys[1].op = "POST /authn/login"
     /\ \A i \in Users : calls[i] = <<>>
     /\ userData = <<>> /\ final = "none" /\ authToken = ""
     /\ phase \notin {"addresstypes", "groups", "readfile", "run"}

\* A login that was answered without a token, in either revision.
C8_Witness == loginResp.state = "answered" /\ ~loginResp.token

\* The existence query of batch k was answered and importUsers ran on it.
Imported(k) ==
  /\ bst[k] \in {"import", "done", "error"} /\ searchRes[k].state = "answered"
  /\ \A i \in Members(k) : calls[i] # <<>>
\* The remote records of a response that carry record i's externalSystemId.
Matches(k, i) ==
  {r \in searchRes[k].users : r.externalSystemId = users[i].externalSystemId}

(* C9: for every batch and every response to its existence query, a record is    *)
(* sent to update, with the remote id returned for it, exactly when the response *)
(* holds a remote record with its external id; every other record is sent to     *)
(* create; remote records of other external ids cause no operation.              *)
C9_Reconciliation ==
  \A k \in Batches :
    Imported(k)
    => \A i \in Members(k) :
         IF Matches(k, i) # {}
         THEN SentToUpdate(i) /\ \E r \in Matches(k, i) : calls[i][1].target = r.id
         ELSE SentToCreate(i)

\* What does hold: the claim for the records that carry no id of their own.
ReconciliationWithoutOwnId ==
  \A k \in Batches :
    Imported(k)
    => \A i \in Members(k) :
         IF Matches(k, i) # {}
         THEN SentToUpdate(i) /\ \E r \in Matches(k, i) : calls[i][1].target = r.id
         ELSE input[i].id = "" => SentToCreate(i)

RECURSIVE Flatten(_)
Flatten(ss) == IF ss = <<>> THEN <<>> ELSE Head(ss) \o Flatten(Tail(ss))

(* C10: for a list of length n and a page size p > 0, processUsers makes         *)
(* ceil(n/p) batches, every batch but the last has exactly p records, and the    *)
(* batches concatenated in order are the list.                                   *)
C10_Partition ==
  (phase = "partitioned" /\ partPage > 0)
  => LET n == Len(partIn)
         p == partPage
         b == Len(partOut)
     IN  /\ b = (n + p - 1) \div p
         /\ \A k \in 1..b : k < b => Len(partOut[k]) = p
         /\ (b > 0 => Len(partOut[b]) \in 1..p)
         /\ Flatten(partOut) = partIn

\* A list that does not divide evenly: full batches and a shorter last one.
C10_Witness ==
  /\ phase = "partitioned" /\ partPage > 1
  /\ Len(partOut) >= 2 /\ Len(partOut[Len(partOut)]) < partPage


(* C11: when the page size is zero or negative, partitioning a non-empty list    *)
(* is rejected: processUsers terminates (with an error) and makes no batches.    *)
C11_NonPositivePageRejected ==
  (phase # "partition" /\ partPage <= 0 /\ partIn # <<>>)
  => (phase # "hung" /\ partOut = <<>>)


\* Positions of the run-level requests of kind op.
SysOf(op) == {n \in 1..Len(sys) : sys[n].op = op}
\* The reference-table request was answered and its response processed.
Processed(ans) == ans \in {"ok", "status", "body"}
\* An existence query, a create or an update has been issued.
BatchWorkIssued ==
  \/ SysOf("GET /users?query") # {}
  \/ \E i \in Users : calls[i] # <<>>

(* C12: the stages of a run happen in a fixed order: a reference-table request   *)
(* is issued only after login returned a token (and carries it); GET /groups is  *)
(* issued only after the address-type response was processed; the user file is  *)
(* read only after the patron-group response was processed; no existence query,  *)
(* create or update is issued before both tables were answered.                  *)
C12_StageOrder ==
  /\ \A n \in SysOf("GET /addresstypes") \cup SysOf("GET /groups") :
       /\ loginResp.state = "answered" /\ loginResp.token
       /\ sys[n].token = "token" /\ n > 1 /\ sys[1].op = "POST /authn/login"
  /\ \A n \in SysOf("GET /groups") :
       Processed(addressAns) /\ \E m \in SysOf("GET /addresstypes") : m < n
  /\ (phase \in {"readfile", "run", "hung"} \/ userData # <<>>)
       => Processed(groupAns) /\ Processed(addressAns)
  /\ BatchWorkIssued
       => /\ Processed(addressAns) /\ Processed(groupAns)
          /\ \A n \in SysOf("GET /users?query") :
               \A m \in SysOf("GET /addresstypes") \cup SysOf("GET /groups") : m < n

\* A create or update was issued in a run whose two tables were filled.
C12_Witness ==
  /\ \E i \in Users : calls[i] # <<>>
  /\ addressAns = "ok" /\ groupAns = "ok" /\ Cardinality(SysOf("GET /users?query")) > 1

(* C13: within every batch, no create or update call of a record of the batch is *)
(* issued before the batch's existence query has returned and been parsed.       *)
C13_ImportAfterQuery ==
  \A i \in Users :
    calls[i] # <<>>
    => LET k == BatchOf(i)
       IN  /\ searchRes[k].state = "answered" /\ searchRes[k].ok
           /\ \E n \in SysOf("GET /users?query") : sys[n].batch = k
           /\ bst[k] \in {"import", "done", "error"}

\* A record of a later batch has had its first call issued, after the query of
\* its own batch was answered.
C13_Witness ==
  \E i \in Users :
    /\ calls[i] # <<>> /\ BatchOf(i) > 1
    /\ searchRes[BatchOf(i)].state = "answered"


\* The reference-table request was answered with a failure status or with a
\* body that does not hold the list.
TableFailed(ans) == ans \in {"status", "body"}

(* C14: when the address-type or the patron-group request is answered with a     *)
(* non-success status or an unparsable body, that lookup table stays empty for   *)
(* the whole run and the run goes on: the next stage is started, and the process *)
(* does not end for that reason.                                                 *)
C14_FailedTableStaysEmpty ==
  /\ TableFailed(addressAns)
       => /\ DOMAIN addressTypes = {}
          /\ SysOf("GET /groups") # {}
          /\ phase \in {"groups", "stalled", "readfile", "run", "hung", "aborted"}
  /\ TableFailed(groupAns)
       => /\ DOMAIN patronGroups = {}
          /\ phase \in {"readfile", "run", "hung", "aborted"}
          /\ (phase = "aborted" \/ (proc = "exited" /\ phase = "readfile"))
               => fileKind \in {"ioerr", "badjson", "null"}
          /\ (fileKind = "list" /\ input # <<>> /\ pageSize > 0 /\ phase # "readfile")
               => SysOf("GET /users?query") # {}

\* Both tables failed, one by status and one by body, and index.js went on to
\* issue a create or update.
C14_Witness ==
  /\ variant = "index" /\ addressAns = "status" /\ groupAns = "body"
  /\ \E i \in Users : calls[i] # <<>>


\* Nothing more can happen in the run: the process is gone, the start-up chain
\* has lost its continuation, or no request is awaited any more.
Quiet ==
  \/ proc # "running"
  \/ phase \in {"stalled", "aborted"}
  \/ phase = "run" /\ (\A i \in Users : pc[i] \notin InFlight)
                   /\ (\A k \in Batches : bst[k] # "search")

(* C15: every run in which login succeeds and the input parses reaches the final *)
(* completion report of processUsers, whatever the remote calls return.  Stated  *)
(* on the states in which nothing more can happen: such a run has reported.      *)
C15_RunReachesReport ==
  (variant = "index" /\ loginResp.state = "answered" /\ loginResp.token
     /\ fileKind = "list" /\ pageSize > 0 /\ Quiet)
  => final # "none"


(* C16: every input record gets at most one outcome: the completion callback of  *)
(* its create or update operation is invoked at most once over the whole run, on *)
(* every path through creation, compensation and error handling.                 *)
C16_CallbackAtMostOnce ==
  \A i \in Users :
    /\ Len(cbs[i]) <= 1
    /\ (cbs[i] # <<>> => pc[i] = "done")
    /\ (pc[i] \in InFlight \cup {"dead", "idle"} => cbs[i] = <<>>)

\* A record went through the whole rollback and its callback was called, and a
\* sibling of its batch completed as well.
C16_Witness ==
  \E i \in Users : \E j \in Users :
    /\ i # j /\ calls[i] # <<>> /\ calls[j] # <<>> /\ BatchOf(i) = BatchOf(j)
    /\ Issued(i, "DELETE /authn/credentials") /\ Issued(i, "DELETE /users")
    /\ Len(cbs[i]) = 1 /\ Len(cbs[j]) = 1


(* C17: when the existence query of a batch is answered with a non-2xx status,   *)
(* the call counts as failed whatever its body holds: the batch fails and no     *)
(* create or update call is issued for any record of the batch.                  *)
C17_RefusedQueryFailsBatch ==
  \A k \in Batches :
    (searchRes[k].state = "answered" /\ NonSuccess(searchRes[k].status))
    => /\ bst[k] = "error"
       /\ \A i \in Members(k) : calls[i] = <<>>

\* What does hold in index.js: the status of the answer plays no part; the batch
\* is imported exactly when the body could be parsed.
QueryStatusIgnored ==
  \A k \in Batches :
    (variant = "index" /\ searchRes[k].state = "answered")
    => IF searchRes[k].ok THEN \A i \in Members(k) : calls[i] # <<>>
       ELSE bst[k] = "error" /\ \A i \in Members(k) : calls[i] = <<>>


\* The identifiers uuidv1() has handed out in this run.
Generated == {UuidName[n] : n \in 1..nextUuid}
\* The identifiers of the records the remote service held before the run.
Preexisting == {RemoteId(ExtName[n]) : n \in 1..Len(ExtName)} \cup {RemoteId(ForeignExt), OwnId}

(* C18: every DELETE /users/{id} call targets the identifier this run generated  *)
(* for a record whose POST /users succeeded, the id that POST carried; no other  *)
(* id, and no record that existed before the run, is ever the target.            *)
C18_DeleteTargetsOwnCreation ==
  \A i \in Users : \A n \in CallsOf(i, "DELETE /users") :
    /\ calls[i][n].target \in Generated
    /\ StepOk(i, "POST /users")
    /\ calls[i][n].target = Call(i, "POST /users").target
    /\ calls[i][n].target \notin Preexisting

\* What does hold: a delete is only ever issued for a record this run created,
\* and never names a record that existed before.
DeleteNeverHitsExisting ==
  \A i \in Users : \A n \in CallsOf(i, "DELETE /users") :
    /\ StepOk(i, "POST /users")
    /\ calls[i][n].target \notin Preexisting
    /\ calls[i][n].target \in {Undefined, Call(i, "POST /users").target}


\* The rule of the claim: a name the table holds is replaced by its id, any other
\* field value ends as no field at all.
ReplacedOrRemoved(table, value) ==
  IF value \in DOMAIN table THEN table[value] ELSE Absent

(* C19: mapUserData translates the patron-group field and the preferred-contact  *)
(* type field by one rule: a name present in its table (patron groups; the       *)
(* built-in contact types) is replaced by the mapped id, otherwise the field is  *)
(* removed; translation never fails the record.                                  *)
C19_FieldsReplacedOrRemoved ==
  phase = "mapped"
  => /\ mapOut.patronGroup = ReplacedOrRemoved(patronGroups, mapIn.patronGroup)
     /\ mapIn.hasPersonal
          => mapOut.preferredContactTypeId =
               ReplacedOrRemoved(preferredContactTypes, mapIn.preferredContactTypeId)

\* What does hold: the rule of C19 for the fields that hold a non-empty name; a
\* field that is missing or holds the empty string is left as it is, and the
\* contact type is only looked at when the record has `personal`.
NamedFieldsReplacedOrRemoved ==
  phase = "mapped"
  => /\ mapOut.patronGroup =
          IF Truthy(mapIn.patronGroup)
          THEN ReplacedOrRemoved(patronGroups, mapIn.patronGroup) ELSE mapIn.patronGroup
     /\ mapOut.preferredContactTypeId =
          IF mapIn.hasPersonal /\ Truthy(mapIn.preferredContactTypeId)
          THEN ReplacedOrRemoved(preferredContactTypes, mapIn.preferredContactTypeId)
          ELSE mapIn.preferredContactTypeId

\* The address names a type the table holds.
Resolvable(address) == address.addressTypeId \in DOMAIN addressTypes

(* C20: the address list mapUserData produces consists of exactly the input      *)
(* addresses whose address-type name is in the address-type table, in their      *)
(* original order, each with the type replaced by its id; the others are left    *)
(* out.                                                                          *)
C20_AddressesFiltered ==
  phase = "mapped"
  => LET kept == SelectSeq(mapIn.addresses, Resolvable)
     IN  /\ Len(mapOut.addresses) = Len(kept)
         /\ \A n \in 1..Len(kept) :
              /\ mapOut.addresses[n].line = kept[n].line
              /\ mapOut.addresses[n].addressTypeId = addressTypes[kept[n].addressTypeId]
         /\ \A n \in 1..Len(mapOut.addresses) : \A m \in 1..Len(mapOut.addresses) :
              n < m => mapOut.addresses[n].line < mapOut.addresses[m].line

\* Two addresses, the first with an unresolvable type and the second with a
\* resolvable one: the record comes out with exactly the second.
C20_Witness ==
  /\ phase = "mapped" /\ Len(mapIn.addresses) = 2
  /\ ~Resolvable(mapIn.addresses[1]) /\ Truthy(mapIn.addresses[1].addressTypeId)
  /\ Resolvable(mapIn.addresses[2])
  /\ Len(mapOut.addresses) = 1 /\ mapOut.addresses[1].line = 2


(* C21: running mapUserData twice on the same input record with the same lookup  *)
(* tables produces the same output both times.                                    *)
C21_SecondRunSameOutput ==
  phase = "mapped2" => mapOut = mapFirst

\* What does hold: the second run leaves a record alone in which the first run
\* found nothing to translate, and otherwise only removes what the first run
\* had put in.
SecondRunOnlyRemoves ==
  phase = "mapped2"
  => /\ mapOut.patronGroup \in {mapFirst.patronGroup, Absent}
     /\ mapOut.preferredContactTypeId \in {mapFirst.preferredContactTypeId, Absent}
     /\ Len(mapOut.addresses) <= Len(mapFirst.addresses)
     /\ (mapFirst = mapIn => mapOut = mapFirst)


\* No batch-fatal condition: every existence query that ended was answered with
\* a body that could be parsed.
NoBatchFatal == \A k \in Batches : searchRes[k].state \in {"none", "answered"}
                                   /\ (searchRes[k].state = "answered" => searchRes[k].ok)
\* No record call of the run ended in a transport error.
NoTransportError == \A i \in Users : \A n \in 1..Len(calls[i]) : ~Broken(calls[i][n])

(* C22: when no fatal and no batch-fatal condition occurs, the final report of   *)
(* the run is success, however many records failed in their create, update,      *)
(* credential, permission or rollback steps: the final callback never receives   *)
(* an error, and a run in which nothing more can happen has reported success.    *)
C22_RecordFailuresReportSuccess ==
  (variant = "index" /\ phase = "run" /\ NoBatchFatal /\ NoTransportError)
  => /\ final # "failed"
     /\ (Quiet => final = "finished")


\* The content of the user file is no JSON list: it is not JSON at all, or it is
\* JSON of another kind (an object or number; null or a string).
NotAJsonList == fileKind \in {"badjson", "object", "null"}

(* C23: when the user data cannot be parsed as a JSON list (malformed JSON, or   *)
(* valid JSON that is no array), processUsers aborts the run: no existence query *)
(* is issued and the import is never reported as finished.                       *)
C23_NonListAborts ==
  NotAJsonList
  => /\ SysOf("GET /users?query") = {}
     /\ final # "finished"
     /\ phase # "run"

\* What does hold: malformed JSON, null and a string end the run without a
\* report; no kind of content that is no list makes the run issue a query.
NonListIssuesNoQuery ==
  /\ NotAJsonList => SysOf("GET /users?query") = {} /\ \A i \in Users : calls[i] = <<>>
  /\ fileKind \in {"badjson", "null"} => final = "none" /\ phase # "run"


\* The value a setting is given in a source: present and not empty.
Given(value) == Truthy(value)
\* The first given value of: config file, environment variable, default.
Preferred(k) ==
  IF cfgKind = "loaded" /\ Given(cfgFile[k]) THEN cfgFile[k]
  ELSE IF Given(cfgEnv[k]) THEN cfgEnv[k]
  ELSE Defaults[k]

(* C24: every setting has a fallback: initConfig resolves each setting to the    *)
(* config-file value if given, else the environment variable, else the built-in  *)
(* default; when the config file cannot be loaded the import still starts (login *)
(* is issued) with the environment/default values.  Both revisions.              *)
C24_ConfigFallback ==
  ~(proc = "running" /\ phase = "config")
  => /\ \A k \in DOMAIN Defaults : settings[k] = Preferred(k)
     /\ proc = "running" /\ phase = "login"
     /\ sys = <<SysRequest("POST /authn/login", 0, <<>>, "")>>

\* What does hold: the order of preference, and the start of the import unless
\* the config file could not be loaded.
FallbackWhenLoadable ==
  /\ \A k \in DOMAIN Defaults : phase = "login" => settings[k] = Preferred(k)
  /\ (cfgKind # "unloadable" /\ phase # "config") => phase = "login" /\ Len(sys) = 1
  /\ cfgKind = "unloadable" => sys = <<>>


\* The login was answered with a status outside 200..299.
LoginNonSuccess == loginResp.state = "answered" /\ NonSuccess(loginResp.status)

(* C25: a login response with a non-success HTTP status aborts the run before    *)
(* any reference-table request, even when the response carries a token header.   *)
C25_NonSuccessLoginAborts ==
  (variant = "index" /\ LoginNonSuccess)
  => /\ SysOf("GET /addresstypes") = {} /\ SysOf("GET /groups") = {}
     /\ authToken = ""
     /\ final = "none"

\* What does hold: only the token header decides; a non-success answer without
\* a token ends the run, one with a token is taken as a login.
LoginDecidedByToken ==
  (variant = "index" /\ loginResp.state = "answered")
  => IF loginResp.token
     THEN authToken = "token" /\ SysOf("GET /addresstypes") # {}
     ELSE proc = "exited" /\ Len(sys) = 1


\* Call `later` of record i was issued after its call `earlier` returned success.
IssuedAfterSuccess(i, later, earlier) ==
  Issued(i, later)
  => /\ StepOk(i, earlier)
     /\ Position(i, earlier) < Position(i, later)

(* C26: for every to-create record the creation steps are strictly ordered: the  *)
(* create-credential call is issued only after the create-record call returned   *)
(* success, the apply-permissions call only after the create-credential call     *)
(* returned success, and the record completes as Created only after all three    *)
(* calls returned success.                                                       *)
C26_CreationStepsOrdered ==
  variant = "index"
  => \A i \in Users :
       /\ Issued(i, "POST /authn/credentials") => SentToCreate(i)
       /\ IssuedAfterSuccess(i, "POST /authn/credentials", "POST /users")
       /\ IssuedAfterSuccess(i, "POST /perms/users", "POST /authn/credentials")
       /\ Outcome(i) = "Created"
          => /\ StepOk(i, "POST /users")
             /\ StepOk(i, "POST /authn/credentials")
             /\ StepOk(i, "POST /perms/users")
             /\ Len(calls[i]) = 3

\* A record completed as Created after its three calls, and another record's
\* create-credential call was refused.
C26_Witness ==
  /\ variant = "index"
  /\ \E i \in Users : Outcome(i) = "Created" /\ StepOk(i, "POST /perms/users")
  /\ \E i \in Users : StepRefused(i, "POST /authn/credentials")

(* C27: if the create-record call returns a non-success status, the record fails *)
(* with nothing to unwind: no create-credential, apply-permissions,              *)
(* delete-credential or delete-record call is ever issued for that record.       *)
C27_RefusedCreateNothingToUnwind ==
  variant = "index"
  => \A i \in Users :
       StepRefused(i, "POST /users")
       => /\ Len(calls[i]) = 1
          /\ Outcome(i) = "Failed"
          /\ pc[i] = "done"
          /\ remote[i] = {}

\* A create-record call was refused and the run went on to its end.
C27_Witness ==
  /\ variant = "index" /\ final = "finished"
  /\ \E i \in Users : StepRefused(i, "POST /users")


\* Record i's operation was completed with a failure passed to its callback.
CompletedWithFailure(i) == cbs[i] # <<>> /\ cbs[i][Len(cbs[i])] = "err"
\* The transport errors of record i's calls of the kinds in ops were handled.
TransportErrorsHandled(i, ops) ==
  \A n \in 1..Len(calls[i]) :
     (calls[i][n].op \in ops /\ Broken(calls[i][n]))
     => CompletedWithFailure(i) /\ pc[i] = "done"

(* C28: every remote call issued during record creation, update and rollback     *)
(* handles a transport-level error by completing that record's operation with a  *)
(* failure: no transport error on POST /users, PUT /users, POST                  *)
(* /authn/credentials, POST /perms/users or either DELETE is left unhandled or   *)
(* leaves the record without a completion.                                       *)
C28_TransportErrorsComplete ==
  variant = "index"
  => \A i \in Users :
       TransportErrorsHandled(i, {"POST /users", "PUT /users", "POST /authn/credentials",
                                  "POST /perms/users", "DELETE /authn/credentials",
                                  "DELETE /users"})

\* What does hold: the transport errors of the create-record, update and
\* create-credential calls complete the record with a failure.
ForwardErrorsComplete ==
  variant = "index"
  => \A i \in Users :
       TransportErrorsHandled(i, {"POST /users", "PUT /users", "POST /authn/credentials"})

\* A transport error of each of the three remaining calls that ends the process.
PermsErrorUnhandled ==
  \E i \in Users : variant = "index" /\ StepBroken(i, "POST /perms/users") /\ proc = "crashed"
CredentialDeleteErrorUnhandled ==
  \E i \in Users : variant = "index" /\ StepBroken(i, "DELETE /authn/credentials")
                   /\ proc = "crashed"
RecordDeleteErrorUnhandled ==
  \E i \in Users : variant = "index" /\ StepBroken(i, "DELETE /users") /\ proc = "crashed"


\* The existence queries of the run, in the order they were issued.
Queries == [n \in 1..Cardinality(SysOf("GET /users?query")) |->
              sys[CHOOSE m \in SysOf("GET /users?query") :
                    Cardinality({q \in SysOf("GET /users?query") : q <= m}) = n]]
QueryIssued(k) == \E n \in SysOf("GET /users?query") : sys[n].batch = k
\* The queries were issued in input order, one per batch.
QueriesInOrder == \A n \in 1..Len(Queries) : Queries[n].batch = n
\* The query of batch k was issued only after every record of batch k - 1
\* had completed.
AfterPreviousBatch(k) ==
  (k > 1 /\ QueryIssued(k)) => \A i \in Members(k - 1) : Completed(i)

(* C29, as claimed: batches are processed one at a time in input order: the      *)
(* existence query of batch k+1 is issued only after every record operation of   *)
(* batch k has completed, in index.js and in part_000 alike.                     *)
C29_BatchesOneAtATime ==
  /\ QueriesInOrder
  /\ \A k \in Batches : AfterPreviousBatch(k)

(* C29, amended: the queries are issued in input order in both revisions; in     *)
(* index.js the query of batch k+1 is issued only after every record operation   *)
(* of batch k has completed (and completed without passing an error); in         *)
(* part_000 the queries of all batches are issued at once, before any record     *)
(* operation.                                                                    *)
C29_BatchOrder ==
  /\ QueriesInOrder
  /\ variant = "index"
     => \A k \in Batches :
          /\ AfterPreviousBatch(k)
          /\ (k > 1 /\ QueryIssued(k)) => bst[k - 1] = "done"
  /\ (variant = "part0" /\ phase = "run") => \A k \in Batches : QueryIssued(k)

\* index.js: the query of a second batch was issued after the first batch's
\* record had completed.
C29_Witness ==
  /\ variant = "index" /\ Len(userData) = 2 /\ QueryIssued(2)
  /\ \A i \in Members(1) : Completed(i)

\* part_000: the query of the second batch is out while a record of the first
\* batch has not completed.
ConcurrentBatches ==
  /\ variant = "part0" /\ Len(userData) = 2 /\ QueryIssued(2)
  /\ \E i \in Members(1) : calls[i] # <<>> /\ ~Completed(i)


\* A request of record i is awaited.
RecordInFlight(i) == calls[i] # <<>> /\ pc[i] \in InFlight
\* The final callback of processUsers has run.
Reported == final \in {"finished", "failed"}

(* C30: the run's final report (the final callback of processUsers) is emitted   *)
(* only when no record-level remote call issued by the run is still in flight,   *)
(* also when a record of the last processed batch ended with an error.           *)
C30_ReportAfterAllCalls ==
  (variant = "index" /\ Reported) => \A i \in Users : ~RecordInFlight(i)

\* What does hold: a report of success is emitted only when no record call is in
\* flight; a report of failure may leave calls of sibling records in flight.
SuccessReportAfterAllCalls ==
  (variant = "index" /\ final = "finished") => \A i \in Users : ~RecordInFlight(i)

\* The failure was reported while a sibling of the failed record awaits an answer.
ReportedWhileInFlight ==
  /\ variant = "index" /\ final = "failed"
  /\ \E i, j \in Users : /\ i # j /\ BatchOf(i) = BatchOf(j)
                         /\ cbs[i] = <<"err">> /\ RecordInFlight(j)


\* The stages that follow the patron-group request.
AfterGroups == {"readfile", "run", "hung"}
\* The address-type request has ended in some way / the patron-group request has.
AddressTypesEnded == addressAns # "none"
GroupsEnded == groupAns # "none"

(* C31: after a successful login the pipeline always goes on: the patron-group   *)
(* request is triggered whatever the result of the address-type request, and     *)
(* reading the user data is triggered whatever the result of the patron-group    *)
(* request, including a transport error of either request.                       *)
C31_PipelineAlwaysGoesOn ==
  variant = "index"
  => /\ AddressTypesEnded => SysOf("GET /groups") # {}
     /\ GroupsEnded => phase \in AfterGroups

\* What does hold: an answered request, whatever its status and body, triggers
\* the next stage; a transport error of either request triggers nothing.
AnsweredTableGoesOn ==
  variant = "index"
  => /\ Processed(addressAns) => SysOf("GET /groups") # {}
     /\ Processed(groupAns) => phase \in AfterGroups
     /\ addressAns = "error" => (SysOf("GET /groups") = {} /\ phase = "stalled")
     /\ groupAns = "error" => phase = "stalled"

\* Each of the two requests ended with a transport error.
AddressTypesErrorStalls == variant = "index" /\ addressAns = "error"
GroupsErrorStalls == variant = "index" /\ groupAns = "error"


\* The remote ids the existence query of record i's batch returned for records
\* with record i's external id.
MatchedIds(i) == {r.id : r \in Matches(BatchOf(i), i)}

(* C32: the id used in the path of every PUT /users/{id} call is a remote id     *)
(* returned by the existence query of the same batch for a remote record with    *)
(* the same external id as the record being updated; an id carried by the input  *)
(* record itself is never used as an update target.                              *)
C32_UpdateTargetFromQuery ==
  \A i \in Users : \A n \in CallsOf(i, "PUT /users") :
    /\ calls[i][n].target \in MatchedIds(i)
    /\ calls[i][n].target # OwnId

\* What does hold: the target is the id the query returned for the record when
\* it returned one, and otherwise the id the input record carried.
UpdateTargetFromQueryOrInput ==
  \A i \in Users : \A n \in CallsOf(i, "PUT /users") :
    IF MatchedIds(i) # {}
    THEN calls[i][n].target \in MatchedIds(i)
    ELSE calls[i][n].target = input[i].id /\ input[i].id = OwnId

\* An update aimed at the id the input record carried, no remote record matching.
UpdateOfOwnId ==
  \E i \in Users : /\ Issued(i, "PUT /users") /\ MatchedIds(i) = {}
                   /\ Call(i, "PUT /users").target = OwnId


\* The existence queries issued for batch k.
QueriesOf(k) == {n \in SysOf("GET /users?query") : sys[n].batch = k}
\* searchUsers has been called for batch k.
BatchStarted(k) == bst[k] # "pending"
\* The external ids a query names.
Named(q) == {q.query[j] : j \in 1..Len(q.query)}

(* C33: exactly one existence query (GET /users?query=...) is issued per         *)
(* processed batch, and its query names the external id of every record of that  *)
(* batch and of no other record.                                                 *)
C33_OneQueryPerBatch ==
  /\ \A k \in Batches :
       /\ Cardinality(QueriesOf(k)) = IF BatchStarted(k) THEN 1 ELSE 0
       /\ \A n \in QueriesOf(k) :
            /\ Named(sys[n]) = {input[i].externalSystemId : i \in Members(k)}
            /\ Len(sys[n].query) = Len(userData[k])
            /\ \A j \in 1..Len(userData[k]) :
                 sys[n].query[j] = input[userData[k][j]].externalSystemId
  /\ \A n \in SysOf("GET /users?query") : sys[n].batch \in Batches

\* The query of a batch of two records was issued and answered.
C33_Witness ==
  \E k \in Batches : /\ QueriesOf(k) # {} /\ searchRes[k].state = "answered"
                     /\ Len(userData[k]) = 2


\* The records with a create, update or rollback request in flight.
InFlightRecords == {i \in Users : RecordInFlight(i)}

(* C34: at every moment of a run the number of record-level create/update        *)
(* operations in flight is bounded by the configured page size: it never grows   *)
(* with the number of input records (processUsers and importUsers of index.js).  *)
C34_InFlightBoundedByPageSize ==
  variant = "index"
  => /\ Cardinality(InFlightRecords) <= pageSize
     /\ \A i, j \in InFlightRecords : BatchOf(i) = BatchOf(j)

\* More records than the page size, and as many operations in flight as the page
\* size allows while another batch is waiting or done.
C34_Witness ==
  /\ variant = "index" /\ N > pageSize
  /\ Cardinality(InFlightRecords) = pageSize
  /\ \E i \in InFlightRecords : BatchOf(i) = 2

\* part_000 starts every batch at once: more operations in flight than a page.
FanOutBeyondPage ==
  variant = "part0" /\ Cardinality(InFlightRecords) > pageSize


\* mapUserData has been called on the record.
Materialized == phase \in {"mapped", "mapped2"}

(* C35: mapUserData leaves the input record unchanged: the record as received    *)
(* (its patron group name, contact type name and address list) is the same after *)
(* materialization as before, the translated record being a separate copy.       *)
C35_InputRecordUnchanged ==
  Materialized => mapArg = mapIn

\* What does hold: the object passed in is the translated record itself.
MaterializedInPlace ==
  Materialized => mapArg = mapOut

\* A record whose patron group name was replaced by an id on the object passed in.
InputRecordRewritten ==
  /\ phase = "mapped" /\ mapIn.patronGroup \in DOMAIN patronGroups
  /\ mapArg.patronGroup = patronGroups[mapIn.patronGroup]
  /\ mapArg.patronGroup # mapIn.patronGroup


\* The create-record calls of the run, as pairs of record and call.
Creates == UNION {{<<i, n>> : n \in CallsOf(i, "POST /users")} : i \in Users}

Authorized(request) == request.token = authToken /\ request.tenant = folioTenant
\* The login was answered with a token: what the code takes as a successful login.
LoginGaveToken == loginResp.state = "answered" /\ loginResp.token

\* The state part of C37: the token is set only after a login that gave one, and
\* every call but the login carries it and the tenant.
TokenOnEveryCall ==
  /\ authToken # "" => LoginGaveToken
  /\ LoginGaveToken => authToken = "token"
  /\ \A n \in 1..Len(sys) :
       IF sys[n].op = "POST /authn/login"
       THEN n = 1 /\ sys[n].token = "" /\ sys[n].tenant = folioTenant
       ELSE authToken # "" /\ Authorized(sys[n])
  /\ \A i \in Users : \A n \in 1..Len(calls[i]) : authToken # "" /\ Authorized(calls[i][n])

(* C37: the session token is written exactly once, by a successful login, and    *)
(* never changes afterwards; every remote call other than the login call carries *)
(* exactly that token and the tenant header.                                     *)
C37_TokenWrittenOnce ==
  /\ []TokenOnEveryCall
  /\ [][/\ authToken # "" => authToken' = authToken
        /\ authToken' # authToken => (phase = "login" /\ loginResp'.token)]_vars

\* Reference-table requests, an existence query and record calls of two kinds
\* were issued with the token.
C37_Witness ==
  /\ authToken = "token"
  /\ SysOf("GET /groups") # {} /\ SysOf("GET /users?query") # {}
  /\ \E i \in Users : Issued(i, "POST /authn/credentials")
  /\ \E i \in Users : Issued(i, "PUT /users")


\* The first batch has started: its existence query is out.
FirstBatchStarted == SysOf("GET /users?query") # {}

(* C38: once the first batch starts, the address-type and patron-group lookup    *)
(* tables never change: every record of the run is translated against the same   *)
(* two tables, and no operation after readUserData writes to them.               *)
C38_TablesStable ==
  [][(phase \in {"readfile", "run"} \/ FirstBatchStarted)
     => /\ addressTypes' = addressTypes
        /\ patronGroups' = patronGroups]_vars

\* Records were imported against filled tables: both tables hold entries and a
\* record operation of the run has completed.
C38_Witness ==
  /\ addressTypes # <<>> /\ patronGroups # <<>>
  /\ FirstBatchStarted
  /\ \E i \in Users : Completed(i)


====
